---- MODULE Spec2Model ----
(***************************************************************************)
(* Amarantine (amaranth.h): the bytecode compiler, the backtracking VM     *)
(* (VM::executeAt, VM::search, VM::buildResult) and the Regex facade       *)
(* (match, search, searchAll).                                             *)
(*                                                                         *)
(* Bytes are their ASCII codes, text offsets and instruction addresses are *)
(* 0-based as in the source; a TLA+ sequence s holds element i at s[i+1].  *)
(***************************************************************************)
EXTENDS Integers, Sequences, FiniteSets

\* std::string::npos (2^64-1 in the build; only compared for equality after
\* the npos tests, so any value that is no offset stands for it).
npos == -1

\* UINT32_MAX, the "unbounded" maxRepeat of * and +; only compared for
\* equality (2^32-1 is outside TLC's integers).
UINT32_MAX == 2147483647

\* ClassType
CLASS_DIGIT == 0
CLASS_WORD == 1
CLASS_SPACE == 2

\* Longest input text.
MaxLen == 3

\* Longest pattern made of opening characters, and largest number written in
\* a bounded quantifier.
MaxOpenLen == 3
MaxRepeat == 3

Min(a, b) == IF a < b THEN a ELSE b
Max(a, b) == IF a < b THEN b ELSE a

\* The byte written as the one-character string s.
Ord(s) ==
  CASE s = "a" -> 97
    [] s = "b" -> 98
    [] s = "d" -> 100
    [] s = "e" -> 101
    [] s = "f" -> 102
    [] s = "n" -> 110
    [] s = "r" -> 114
    [] s = "s" -> 115
    [] s = "t" -> 116
    [] s = "v" -> 118
    [] s = "w" -> 119
    [] s = "x" -> 120
    [] s = "B" -> 66
    [] s = "D" -> 68
    [] s = "S" -> 83
    [] s = "W" -> 87
    [] s = "0" -> 48
    [] s = "1" -> 49
    [] s = "2" -> 50
    [] s = "3" -> 51
    [] s = "4" -> 52
    [] s = "5" -> 53
    [] s = "_" -> 95
    [] s = " " -> 32
    [] s = "\t" -> 9
    [] s = "!" -> 33
    [] s = "$" -> 36
    [] s = "(" -> 40
    [] s = ")" -> 41
    [] s = "*" -> 42
    [] s = "+" -> 43
    [] s = "," -> 44
    [] s = "-" -> 45
    [] s = "." -> 46
    [] s = ":" -> 58
    [] s = "=" -> 61
    [] s = "?" -> 63
    [] s = "[" -> 91
    [] s = "\\" -> 92
    [] s = "]" -> 93
    [] s = "^" -> 94
    [] s = "{" -> 123
    [] s = "|" -> 124
    [] s = "}" -> 125

\* The bytes input texts are made of.
Alphabet == {Ord("a"), Ord("1")}

Texts == UNION {[1..n -> Alphabet] : n \in 0..MaxLen}

(***************************************************************************)
(* CharClass                                                               *)
(***************************************************************************)
isDigit(c) == c >= 48 /\ c <= 57
isUpper(c) == c >= 65 /\ c <= 90
isLower(c) == c >= 97 /\ c <= 122
isAlpha(c) == isUpper(c) \/ isLower(c)
isWordChar(c) == isAlpha(c) \/ isDigit(c) \/ c = 95
isSpace(c) == c \in {32, 9, 10, 13, 12, 11}

\* A 64-bit mask is the set of its set bit numbers.
inClassExt(low, high, c) ==
  IF c < 64 THEN c \in low
  ELSE IF c < 128 THEN (c - 64) \in high
  ELSE FALSE

(***************************************************************************)
(* Instruction: the static constructors. The union's members are fields of *)
(* their own; Split keeps its second target in charset.                    *)
(***************************************************************************)
Char(c) == [opcode |-> "CHAR", operand |-> 1, ch |-> c]
Any == [opcode |-> "ANY", operand |-> 1]
Range(lo, hi) == [opcode |-> "RANGE", operand |-> 1, lo |-> lo, hi |-> hi]
Jump(target) == [opcode |-> "JUMP", operand |-> target]
Split(target1, target2) ==
  [opcode |-> "SPLIT", operand |-> target1, charset |-> target2]
Save(group) == [opcode |-> "SAVE", operand |-> group]
Match == [opcode |-> "MATCH", operand |-> 0]
AnchorStart == [opcode |-> "ANCHOR_START", operand |-> 0]
AnchorEnd == [opcode |-> "ANCHOR_END", operand |-> 0]
Class(classbits_low) ==
  [opcode |-> "CLASS", operand |-> 1,
   charset_low |-> classbits_low, charset_high |-> {}]
ClassExt(classbits_low, classbits_high) ==
  [opcode |-> "CLASS", operand |-> 1,
   charset_low |-> classbits_low, charset_high |-> classbits_high]
NotClass(classbits_low) ==
  [opcode |-> "NOT_CLASS", operand |-> 1,
   charset_low |-> classbits_low, charset_high |-> {}]
NotClassExt(classbits_low, classbits_high) ==
  [opcode |-> "NOT_CLASS", operand |-> 1,
   charset_low |-> classbits_low, charset_high |-> classbits_high]
ClassPred(class_type) ==
  [opcode |-> "CLASS_PRED", operand |-> 1, class_type |-> class_type]
Backref(group) == [opcode |-> "BACKREF", operand |-> group]

(***************************************************************************)
(* ASTNode: the constructors, with the member defaults of the struct.      *)
(***************************************************************************)
ASTNode(t) ==
  [type |-> t, ch |-> 0, classbits |-> {}, classbits_high |-> {},
   class_type |-> -1, minRepeat |-> 0, maxRepeat |-> 0, greedy |-> TRUE,
   groupIndex |-> -1, children |-> <<>>]

Literal(c) == [ASTNode("LITERAL") EXCEPT !.ch = c]
Dot == ASTNode("DOT")
Concat(left, right) == [ASTNode("CONCAT") EXCEPT !.children = <<left, right>>]
Alternate(left, right) ==
  [ASTNode("ALTERNATE") EXCEPT !.children = <<left, right>>]
Repeat(child, min, max) ==
  [ASTNode("REPEAT") EXCEPT !.children = <<child>>,
                            !.minRepeat = min, !.maxRepeat = max]
Group(child, idx) ==
  [ASTNode("GROUP") EXCEPT !.children = <<child>>, !.groupIndex = idx]

\* Parser::parseEscape for \d \D \w \W \s \S: a class node evaluated by
\* predicate.
EscapeClass(type, class_type) == [ASTNode(type) EXCEPT !.class_type = class_type]

\* Parser::parseCharacterClass: a bracket expression with its two masks.
BracketClass(negated, low_mask, high_mask) ==
  [ASTNode(IF negated THEN "NOT_CLASS" ELSE "CLASS")
     EXCEPT !.classbits = low_mask, !.classbits_high = high_mask]

\* Parser::parseQuantifier: the three unbounded/optional quantifiers.
Star(atom) == Repeat(atom, 0, UINT32_MAX)
Plus(atom) == Repeat(atom, 1, UINT32_MAX)
Quest(atom) == Repeat(atom, 0, 1)

(***************************************************************************)
(* Compiler                                                                *)
(***************************************************************************)
\* A SPLIT with the two targets exchanged: the other order of preference.
AlternateSplitLazy(splitPos, jumpPos) == Split(jumpPos + 1, splitPos + 1)

\* The SPLIT of an alternation, as patched: target1 = the instruction after
\* the SPLIT (first alternative), target2 = the one after the JUMP.
AlternateSplit(splitPos, jumpPos) == Split(splitPos + 1, jumpPos + 1)

\* A loop SPLIT that prefers leaving the loop: the non-greedy order.
RepeatSplitLazy(splitPos, jumpPos) == Split(jumpPos + 1, splitPos + 1)

\* The SPLIT of * and of the loop of +, as patched: target1 = the body,
\* target2 = the instruction after the JUMP back.
RepeatSplit(splitPos, jumpPos) == Split(splitPos + 1, jumpPos + 1)

RECURSIVE compileNode(_, _)
\* for (auto& child : node->children) compileNode(child.get());
RECURSIVE compileChildren(_, _, _)
compileChildren(children, i, instructions_) ==
  IF i > Len(children) THEN instructions_
  ELSE compileChildren(children, i + 1, compileNode(children[i], instructions_))

\* A bounded repeat that emits its child once, whatever min is.
compileTimesOnce(child, n, instructions_) == compileNode(child, instructions_)

\* for (uint32_t i = 0; i < min; ++i) compileNode(child.get());
RECURSIVE compileTimes(_, _, _)
compileTimes(child, n, instructions_) ==
  IF n = 0 THEN instructions_
  ELSE compileTimes(child, n - 1, compileNode(child, instructions_))

\* SPLIT <child> JUMP with both patched: the loop of * and of +.
compileLoop(child, instructions_) ==
  LET splitPos == Len(instructions_)
      body == compileNode(child, Append(instructions_, Split(0, 0)))
      jumpPos == Len(body)
  IN [Append(body, Jump(0)) EXCEPT ![splitPos + 1] = RepeatSplit(splitPos, jumpPos),
                                   ![jumpPos + 1] = Jump(splitPos)]

\* instructions_ after compileNode(node) has appended node's fragment.
compileNode(node, instructions_) ==
  CASE node.type = "LITERAL" -> Append(instructions_, Char(node.ch))
    [] node.type = "DOT" -> Append(instructions_, Any)
    [] node.type = "CLASS" ->
         IF node.class_type >= 0
           THEN Append(instructions_, ClassPred(node.class_type))
           ELSE IF node.classbits_high # {}
             THEN Append(instructions_, ClassExt(node.classbits, node.classbits_high))
             ELSE Append(instructions_, Class(node.classbits))
    [] node.type = "NOT_CLASS" ->
         IF node.class_type >= 0
           \* class_type | 0x10
           THEN Append(instructions_, ClassPred(node.class_type + 16))
           ELSE IF node.classbits_high # {}
             THEN Append(instructions_, NotClassExt(node.classbits, node.classbits_high))
             ELSE Append(instructions_, NotClass(node.classbits))
    [] node.type = "ANCHOR_START" -> Append(instructions_, AnchorStart)
    [] node.type = "ANCHOR_END" -> Append(instructions_, AnchorEnd)
    [] node.type = "CONCAT" -> compileChildren(node.children, 1, instructions_)
    [] node.type = "ALTERNATE" ->
         IF Len(node.children) # 2
           THEN compileChildren(node.children, 1, instructions_)
           ELSE
             LET splitPos == Len(instructions_)
                 first == compileNode(node.children[1],
                                      Append(instructions_, Split(0, 0)))
                 jumpPos == Len(first)
                 patched == [Append(first, Jump(0)) EXCEPT
                               ![splitPos + 1] = AlternateSplit(splitPos, jumpPos)]
                 second == compileNode(node.children[2], patched)
             IN [second EXCEPT ![jumpPos + 1] = Jump(Len(second))]
    [] node.type = "REPEAT" ->
         LET child == node.children[1]
             min == node.minRepeat
             max == node.maxRepeat
         IN IF max = UINT32_MAX
              THEN IF min = 0
                     THEN compileLoop(child, instructions_)
                     ELSE compileLoop(child, compileNode(child, instructions_))
              ELSE IF max = 1 /\ min = 0
                THEN LET splitPos == Len(instructions_)
                         body == compileNode(child, Append(instructions_, Split(0, 0)))
                     IN [body EXCEPT ![splitPos + 1] = Split(splitPos + 1, Len(body))]
              ELSE IF max = 1
                THEN compileNode(child, instructions_)
                ELSE compileTimes(child, min, instructions_)
    [] node.type = "GROUP" ->
         Append(compileNode(node.children[1],
                            Append(instructions_, Save(node.groupIndex * 2))),
                Save(node.groupIndex * 2 + 1))
    [] node.type = "BACKREF" -> Append(instructions_, Backref(node.groupIndex))

\* A compile that appends no MATCH to the root's fragment.
compileWithoutMatch(root) == compileNode(root, <<>>)

\* Compiler::compile: the root's fragment and the trailing MATCH.
compile(root) == Append(compileNode(root, <<>>), Match)

(***************************************************************************)
(* Lexer. A pattern is the sequence of its characters, each a              *)
(* one-character string; a token's value is the character's byte.          *)
(***************************************************************************)
Token(t, v, p) == [type |-> t, value |-> v, position |-> p]

\* The switch of Lexer::nextToken (the escape and the blank apart).
tokenType(c) ==
  CASE c = "." -> "DOT"
    [] c = "(" -> "LPAREN"
    [] c = ")" -> "RPAREN"
    [] c = "{" -> "LBRACE"
    [] c = "}" -> "RBRACE"
    [] c = "[" -> "LBRACKET"
    [] c = "]" -> "RBRACKET"
    [] c = "|" -> "PIPE"
    [] c = "*" -> "STAR"
    [] c = "+" -> "PLUS"
    [] c = "?" -> "QUESTION"
    [] c = "^" -> "CARET"
    [] c = "$" -> "DOLLAR"
    [] c = "-" -> "RANGE"
    [] c = "," -> "COMMA"
    [] OTHER -> "LITERAL"

\* nextToken skips blanks by calling itself: the offset of the first
\* character at or after pos_ that is no blank (the length when none is).
RECURSIVE skipBlanks(_, _)
skipBlanks(pattern, pos_) ==
  IF pos_ < Len(pattern) /\ pattern[pos_ + 1] \in {" ", "\t"}
    THEN skipBlanks(pattern, pos_ + 1)
    ELSE pos_

\* Lexer::tokenize from offset pos_ on: the tokens, or the position of the
\* RegexError("Incomplete escape sequence"). A pattern that ends in blanks
\* gets a last token UNKNOWN.
RECURSIVE nextTokens(_, _, _)
nextTokens(pattern, pos_, tokens) ==
  IF pos_ >= Len(pattern)
    THEN [ok |-> TRUE, tokens |-> tokens, position |-> 0]
    ELSE
      LET at == skipBlanks(pattern, pos_)
      IN IF at >= Len(pattern)
           THEN [ok |-> TRUE, position |-> 0,
                 tokens |-> Append(tokens, Token("UNKNOWN", 0, at))]
           ELSE IF pattern[at + 1] = "\\"
             THEN IF at + 1 < Len(pattern)
                    THEN nextTokens(pattern, at + 2,
                           Append(tokens, Token("ESCAPE", Ord(pattern[at + 2]), at)))
                    ELSE [ok |-> FALSE, tokens |-> tokens, position |-> at]
             ELSE nextTokens(pattern, at + 1,
                    Append(tokens, Token(tokenType(pattern[at + 1]),
                                         Ord(pattern[at + 1]), at)))

tokenize(pattern) == nextTokens(pattern, 0, <<>>)

(***************************************************************************)
(* Parser. A parse function returns the node, the parser's pos_ and        *)
(* currentCapture_ after it, or the position of the RegexError it threw.   *)
(***************************************************************************)
Parsed(node, pos_, currentCapture_) ==
  [ok |-> TRUE, node |-> node, pos |-> pos_, cap |-> currentCapture_,
   position |-> 0]
Thrown(position) ==
  [ok |-> FALSE, node |-> Dot, pos |-> 0, cap |-> 0, position |-> position]

peek(tokens, pos_) ==
  IF pos_ < Len(tokens) THEN tokens[pos_ + 1] ELSE Token("UNKNOWN", 0, 0)
\* pos_ after consume()
consumed(tokens, pos_) == IF pos_ < Len(tokens) THEN pos_ + 1 ELSE pos_

isLiteral(t, c) == t.type = "LITERAL" /\ t.value = Ord(c)

isQuantifierStart(t) ==
  t.type \in {"LITERAL", "RANGE", "DOT", "LPAREN", "LBRACKET", "ESCAPE",
              "CARET", "DOLLAR"}

\* Parser::parseNumber: the digits from pos_ on, as [value, pos].
RECURSIVE parseNumber(_, _, _)
parseNumber(tokens, pos_, result) ==
  IF peek(tokens, pos_).type = "LITERAL" /\ isDigit(peek(tokens, pos_).value)
    THEN parseNumber(tokens, pos_ + 1,
                     result * 10 + (peek(tokens, pos_).value - 48))
    ELSE [value |-> result, pos |-> pos_]

parseHexDigit(c) ==
  IF c >= 48 /\ c <= 57 THEN c - 48
  ELSE IF c >= 97 /\ c <= 102 THEN c - 97 + 10
  ELSE IF c >= 65 /\ c <= 70 THEN c - 65 + 10
  ELSE 0

DIGIT_MASK == 48..57
SPACE_MASK == {32, 9, 12, 13, 10, 11}

\* The mask bits of the byte uc: [low, high].
bitsOf(uc) ==
  IF uc < 64 THEN [low |-> {uc}, high |-> {}]
  ELSE IF uc < 128 THEN [low |-> {}, high |-> {uc - 64}]
  ELSE [low |-> {}, high |-> {}]

\* \x inside a class: up to two LITERAL tokens, as [value, pos].
RECURSIVE hexValue(_, _, _, _)
hexValue(tokens, pos_, i, value) ==
  IF i < 2 /\ peek(tokens, pos_).type = "LITERAL"
    THEN hexValue(tokens, pos_ + 1, i + 1,
                  (value * 16 + parseHexDigit(peek(tokens, pos_).value)) % 256)
    ELSE [value |-> value, pos |-> pos_]

\* The bits an escape inside a class adds, and pos_ after it.
classEscape(tokens, pos_) ==
  LET esc == peek(tokens, pos_).value
      after == pos_ + 1
      low(bits) == [low |-> bits, high |-> {}, pos |-> after]
  IN CASE esc \in {Ord("d"), Ord("D")} -> low(DIGIT_MASK)
       [] esc \in {Ord("w"), Ord("W")} -> low({})
       [] esc \in {Ord("s"), Ord("S")} -> low(SPACE_MASK)
       [] esc = Ord("t") -> low({9})
       [] esc = Ord("r") -> low({13})
       [] esc = Ord("n") -> low({10})
       [] esc = Ord("f") -> low({12})
       [] esc = Ord("v") -> low({11})
       [] esc = Ord("a") -> low({7})
       [] esc = Ord("e") -> low({27})
       [] esc = Ord("x") ->
            LET hex == hexValue(tokens, after, 0, 0)
            IN [low |-> bitsOf(hex.value).low, high |-> bitsOf(hex.value).high,
                pos |-> hex.pos]
       [] OTHER -> [low |-> bitsOf(esc).low, high |-> bitsOf(esc).high,
                    pos |-> after]

\* The loop of Parser::parseCharacterClass: the masks and pos_ when it ends.
RECURSIVE classItems(_, _, _, _)
classItems(tokens, pos_, low_mask, high_mask) ==
  LET t == peek(tokens, pos_)
  IN IF t.type \in {"RBRACKET", "UNKNOWN"}
       THEN [low |-> low_mask, high |-> high_mask, pos |-> pos_]
     ELSE IF t.type = "ESCAPE"
       THEN LET e == classEscape(tokens, pos_)
            IN classItems(tokens, e.pos, low_mask \cup e.low, high_mask \cup e.high)
     ELSE IF peek(tokens, pos_ + 1).type = "RANGE"
       THEN LET end_char == peek(tokens, pos_ + 2).value
                members == t.value..end_char
            IN classItems(tokens, consumed(tokens, pos_ + 2),
                          low_mask \cup {i \in members : i < 64},
                          high_mask \cup {i - 64 : i \in {m \in members : m >= 64 /\ m < 128}})
     ELSE classItems(tokens, pos_ + 1,
                     low_mask \cup bitsOf(t.value).low,
                     high_mask \cup bitsOf(t.value).high)

\* Parser::parseCharacterClass, entered after the '['.
parseCharacterClass(tokens, pos_, currentCapture_) ==
  LET negated == peek(tokens, pos_).type = "CARET"
      items == classItems(tokens, IF negated THEN pos_ + 1 ELSE pos_, {}, {})
  IN Parsed(BracketClass(negated, items.low, items.high), items.pos,
            currentCapture_)

\* Parser::parseEscape
parseEscape(escTok) ==
  LET esc == escTok.value
  IN CASE esc = Ord("d") -> EscapeClass("CLASS", CLASS_DIGIT)
       [] esc = Ord("D") -> EscapeClass("NOT_CLASS", CLASS_DIGIT)
       [] esc = Ord("w") -> EscapeClass("CLASS", CLASS_WORD)
       [] esc = Ord("W") -> EscapeClass("NOT_CLASS", CLASS_WORD)
       [] esc = Ord("s") -> EscapeClass("CLASS", CLASS_SPACE)
       [] esc = Ord("S") -> EscapeClass("NOT_CLASS", CLASS_SPACE)
       [] esc \in {Ord("b"), Ord("B")} -> Literal(Ord("b"))
       [] esc = Ord("t") -> Literal(9)
       [] esc = Ord("r") -> Literal(13)
       [] esc = Ord("n") -> Literal(10)
       [] esc = Ord("f") -> Literal(12)
       [] esc = Ord("v") -> Literal(11)
       [] OTHER -> Literal(esc)

RECURSIVE parseAlternation(_, _, _)
RECURSIVE parseConcatenation(_, _, _)
RECURSIVE parseQuantifier(_, _, _)
RECURSIVE parseAtom(_, _, _)

\* The index ASTNode::Group is given: currentCapture_ as it is once the
\* group's body has been parsed (capAtOpen is its value after the ++ at the
\* opening parenthesis).
groupIndex(capAtOpen, capAtClose) == capAtClose

\* "if (!match(RPAREN)) throw ...; return node;" of an unwrapped group
\* (non-capturing, lookahead) opened by the token t, inner being what
\* parseAlternation returned.
closeUnwrapped(tokens, t, inner) ==
  IF ~inner.ok THEN inner
  ELSE IF peek(tokens, inner.pos).type # "RPAREN" THEN Thrown(t.position)
  ELSE Parsed(inner.node, inner.pos + 1, inner.cap)

\* "auto node = parseAlternation(); if (!match(RPAREN)) throw ..."
parseUnwrapped(tokens, pos_, currentCapture_, t) ==
  closeUnwrapped(tokens, t, parseAlternation(tokens, pos_, currentCapture_))

\* "if (!match(RPAREN)) throw ...; return ASTNode::Group(node, currentCapture_)"
closeCapturing(tokens, t, capAtOpen, inner) ==
  IF ~inner.ok THEN inner
  ELSE IF peek(tokens, inner.pos).type # "RPAREN" THEN Thrown(t.position)
  ELSE Parsed(Group(inner.node, groupIndex(capAtOpen, inner.cap)),
              inner.pos + 1, inner.cap)

\* "if (!match(RBRACKET)) throw ...; return node;" after parseCharacterClass
closeClass(tokens, t, currentCapture_, classNode) ==
  IF peek(tokens, classNode.pos).type # "RBRACKET"
    THEN Thrown(t.position)
    ELSE Parsed(classNode.node, classNode.pos + 1, currentCapture_)

\* Parser::parseAtom
parseAtom(tokens, pos_, currentCapture_) ==
  LET t == peek(tokens, pos_)
      after == consumed(tokens, pos_)
  IN CASE t.type = "LITERAL" -> Parsed(Literal(t.value), after, currentCapture_)
       [] t.type = "RANGE" -> Parsed(Literal(Ord("-")), after, currentCapture_)
       [] t.type = "COMMA" -> Parsed(Literal(Ord(",")), after, currentCapture_)
       [] t.type = "DOT" -> Parsed(Dot, after, currentCapture_)
       [] t.type = "LPAREN" ->
            IF isLiteral(peek(tokens, after), "?")
              THEN IF isLiteral(peek(tokens, after + 1), ":")
                     THEN parseUnwrapped(tokens, after + 2, currentCapture_, t)
                     ELSE Thrown(t.position)
            ELSE IF isLiteral(peek(tokens, after), "=")
                    \/ isLiteral(peek(tokens, after), "!")
              THEN parseUnwrapped(tokens, after + 1, currentCapture_, t)
            ELSE closeCapturing(tokens, t, currentCapture_ + 1,
                   parseAlternation(tokens, after, currentCapture_ + 1))
       [] t.type = "LBRACKET" ->
            closeClass(tokens, t, currentCapture_,
                       parseCharacterClass(tokens, after, currentCapture_))
       [] t.type = "ESCAPE" -> Parsed(parseEscape(t), after, currentCapture_)
       [] t.type = "BACKREF" ->
            LET number == parseNumber(tokens, after, 0)
            IN Parsed([ASTNode("BACKREF") EXCEPT !.groupIndex = number.value],
                      number.pos, currentCapture_)
       [] t.type = "CARET" -> Parsed(ASTNode("ANCHOR_START"), after, currentCapture_)
       [] t.type = "DOLLAR" -> Parsed(ASTNode("ANCHOR_END"), after, currentCapture_)
       [] OTHER -> Thrown(t.position)

\* The {min}, {min,max} of parseQuantifier, entered after the '{' (token t):
\* max is min unless a comma follows.
braces(tokens, t, atom, min) ==
  LET comma == peek(tokens, min.pos).type = "COMMA"
      max == IF comma THEN parseNumber(tokens, min.pos + 1, 0) ELSE min
  IN IF peek(tokens, max.pos).type # "RBRACE"
       THEN Thrown(t.position)
       ELSE Parsed(Repeat(atom.node, min.value, max.value), max.pos + 1, atom.cap)

\* The switch of parseQuantifier on the token after the atom.
quantified(tokens, atom) ==
  LET t == peek(tokens, atom.pos)
  IN IF ~atom.ok THEN atom
     ELSE CASE t.type = "STAR" ->
                 Parsed(Repeat(atom.node, 0, UINT32_MAX), atom.pos + 1, atom.cap)
            [] t.type = "PLUS" ->
                 Parsed(Repeat(atom.node, 1, UINT32_MAX), atom.pos + 1, atom.cap)
            [] t.type = "QUESTION" ->
                 Parsed(Repeat(atom.node, 0, 1), atom.pos + 1, atom.cap)
            [] t.type = "LBRACE" ->
                 braces(tokens, t, atom, parseNumber(tokens, atom.pos + 1, 0))
            [] OTHER -> atom

\* Parser::parseQuantifier
parseQuantifier(tokens, pos_, currentCapture_) ==
  quantified(tokens, parseAtom(tokens, pos_, currentCapture_))

\* while (isQuantifierStart()) left = Concat(left, parseQuantifier());
RECURSIVE concatenationLoop(_, _)
concatenate(tokens, left, right) ==
  IF ~right.ok THEN right
  ELSE concatenationLoop(tokens,
         Parsed(Concat(left.node, right.node), right.pos, right.cap))

concatenationLoop(tokens, left) ==
  IF ~left.ok \/ ~isQuantifierStart(peek(tokens, left.pos)) THEN left
  ELSE concatenate(tokens, left, parseQuantifier(tokens, left.pos, left.cap))

\* Parser::parseConcatenation
parseConcatenation(tokens, pos_, currentCapture_) ==
  concatenationLoop(tokens, parseQuantifier(tokens, pos_, currentCapture_))

\* while (match(PIPE)) left = Alternate(left, parseConcatenation());
RECURSIVE alternationLoop(_, _)
alternate(tokens, left, right) ==
  IF ~right.ok THEN right
  ELSE alternationLoop(tokens,
         Parsed(Alternate(left.node, right.node), right.pos, right.cap))

alternationLoop(tokens, left) ==
  IF ~left.ok \/ peek(tokens, left.pos).type # "PIPE" THEN left
  ELSE alternate(tokens, left, parseConcatenation(tokens, left.pos + 1, left.cap))

\* Parser::parseAlternation
parseAlternation(tokens, pos_, currentCapture_) ==
  alternationLoop(tokens, parseConcatenation(tokens, pos_, currentCapture_))

\* "if (pos_ < tokens_.size()) throw RegexError("Unexpected token", ...)"
expectEnd(tokens, result) ==
  IF result.ok /\ result.pos < Len(tokens)
    THEN Thrown(tokens[result.pos + 1].position)
    ELSE result

\* Parser::parse
parse(tokens) == expectEnd(tokens, parseAlternation(tokens, 0, 0))

\* Parser::numCaptures
numCaptures(parsed) == parsed.cap

\* A handle that did not compile: compiled_ is false and the RegexError is
\* rethrown with its position.
notCompiled(position) ==
  [compiled |-> FALSE, position |-> position, instructions |-> <<>>,
   numCaptures |-> 0, ast |-> Dot]

\* The try block of Regex::compile from the parser's result on.
compileParsed(parsed) ==
  IF ~parsed.ok THEN notCompiled(parsed.position)
  ELSE [compiled |-> TRUE, position |-> 0,
        instructions |-> compile(parsed.node),
        numCaptures |-> numCaptures(parsed), ast |-> parsed.node]

\* The try block of Regex::compile from the lexer's result on.
compileLexed(lexed) ==
  IF ~lexed.ok THEN notCompiled(lexed.position)
  ELSE compileParsed(parse(lexed.tokens))

\* Regex::compile: compiled_, and with it the program and the capture
\* count, or the RegexError rethrown to the caller of the constructor.
Regex_compile(pattern) == compileLexed(tokenize(pattern))

(***************************************************************************)
(* The patterns handles are constructed from.                              *)
(***************************************************************************)
PatternSources ==
  { <<"a">>,
    <<"a", "1">>,
    <<"a", "*">>,
    <<"\\", "d", "+">>,
    <<"\\", "S", "+">>,
    <<"a", "\\", "D">>,
    <<"(", "a", "*", ")", "*">>,
    <<"a", "|", "1">>,
    <<"a", "|", "a", "1">>,
    <<"a", "*", "|", "\\", "w">>,
    <<"(", "a", ")", "|", "(", "1", ")">>,
    <<"(", "a", "*", ")", "a">>,
    <<"(", ".", "*", ")", "1", "?">>,
    <<"(", "[", "a", "1", "]", "*", ")", "1">>,
    <<"(", "(", "a", "|", "a", "1", ")", "*", ")", "1", "?">>,
    <<"^", "a">>,
    <<"^", "a", "*">>,
    <<"1", "$">>,
    <<"a", "*", "$">>,
    <<"(", "a", ")", "(", "1", ")">>,
    <<"(", "(", "a", ")", "1", ")">>,
    <<"(", "a", "(", "1", ")", ")", "(", "a", ")">>,
    <<"(", "a", "*", ")", "(", "1", ")">>,
    <<"(", "(", "a", ")", "1", "(", "1", ")", "?", ")">> }

(***************************************************************************)
(* State                                                                   *)
(***************************************************************************)
VARIABLES
  pattern_,          \* Regex::pattern_
  instructions_,     \* Regex::instructions_ (VM::instructions_ is a copy)
  numCaptures_,      \* Regex::numCaptures_; VM::captureCount_ = numCaptures_ + 1
  compiled_,         \* Regex::compiled_
  thrown,            \* the position of the RegexError the constructor threw,
                     \* npos when it threw none
  text,              \* the text of the current call
  op,                \* the facade call: "none", "match", "search", "searchAll"
  start,             \* its start argument
  phase,             \* "idle", "exec" (in executeAt's loop), "returned"
                     \* (executeAt has returned), "done", "threw"
  pc, textPos, matched,                    \* executeAt's locals
  captures_, backtrackStack_, hasCapture_, \* VM members
  execRet,           \* what executeAt returned
  result,            \* the caller's MatchResult (match, search)
  tempResult,        \* search's tempResult, searchAll's local result
  results,           \* searchAll's results
  pos, prevMatchLen, \* the loop variables of search and searchAll
  ret,               \* what match or search returned
  attempts,          \* history: the executeAt calls of this facade call, each
                     \* with its offset, whether MATCH was reached, whether
                     \* it returned true, and the MatchResult it built
  caller,            \* "replace" while Regex::replace runs (text is then its
                     \* local string result, which it hands to search), else
                     \* "none"
  original,          \* replace's argument text
  replacement, all,  \* replace's other arguments
  substitutions,     \* history: the substitutions replace has made
  handles,           \* the Regex objects: slot -> its members, NoHandle for
                     \* a slot that holds no object
  vms,               \* the VM objects ever made, engine_ being an index
                     \* (nullptr = 0); the members of the VM the running
                     \* call executes on are held in instructions_,
                     \* numCaptures_, captures_, backtrackStack_, hasCapture_
                     \* and written back when another thread is scheduled
  operations,        \* the number of copies and moves made so far
  stage,             \* "setup", "call", "solo", "concurrent"
  thread,            \* the running thread (0: the only one)
  using,             \* thread -> the slot of the handle it calls
  parked,            \* thread -> the locals of its call while it does not run
  solo,              \* thread -> the call it made alone and what it returned
  calls,             \* the number of calls that have ended on the handle
  began,             \* what the running call began with: the caller's
                     \* MatchResult and the captures_ of the handle's VM
  recorded           \* history: a call that has ended on a handle used
                     \* before, to compare with the same call on a new handle

vars == <<pattern_, instructions_, numCaptures_, compiled_, thrown, text, op, start, phase,
          pc, textPos, matched, captures_, backtrackStack_, hasCapture_,
          execRet, result, tempResult, results, pos, prevMatchLen, ret,
          attempts, caller, original, replacement, all, substitutions,
          handles, vms, operations, stage, thread, using, parked, solo,
          calls, began, recorded>>

handleVars == <<pattern_, instructions_, numCaptures_, compiled_, thrown>>
vmVars == <<pc, textPos, matched, captures_, backtrackStack_, hasCapture_>>
loopVars == <<pos, prevMatchLen>>
replaceVars == <<caller, original, replacement, all, substitutions>>
reuseVars == <<calls, began, recorded>>
heapVars == <<handles, vms, operations, stage, thread, using, parked, solo,
              reuseVars>>

captureCount_ == numCaptures_ + 1
textLen == Len(text)

\* A MatchResult as default-initialised ("MatchResult result;"): matched and
\* position hold no determinate value until buildResult writes them
\* (written = FALSE: a read of either may yield anything).
FreshResult ==
  [written |-> FALSE, matched |-> FALSE, position |-> 0,
   matched_text |-> <<>>, captures |-> <<>>]

\* The values a read of r.matched can yield.
matchedValues(r) == IF r.written THEN {r.matched} ELSE BOOLEAN

\* MatchResult::length
length(r) == Len(r.matched_text)

(***************************************************************************)
(* VM::executeAt                                                           *)
(***************************************************************************)
\* An entry that sets captures_[0] and leaves the other slots as the call
\* before left them.
keptCaptures(startPos) == [captures_ EXCEPT ![1] = startPos]

\* captures_.assign(captureCount_ * 2, npos) ... captures_[0] = startPos
resetCaptures(startPos) ==
  [i \in 1..(captureCount_ * 2) |-> IF i = 1 THEN startPos ELSE npos]

\* The entry of executeAt(text, p, .): the reset and the locals.
enterExecuteAt(p) ==
  /\ captures_' = resetCaptures(p)
  /\ backtrackStack_' = <<>>
  /\ textPos' = p
  /\ pc' = 0
  /\ matched' = FALSE
  /\ UNCHANGED hasCapture_

\* char c = textPos < textLen ? text[textPos] : '\0'
charAt(tp) == IF tp < textLen THEN text[tp + 1] ELSE 0

\* CLASS_PRED: pred_matched after the negation.
predMatched(inst, tp) ==
  LET negated == (inst.class_type \div 16) % 2 = 1
      base_type == inst.class_type % 16
      c == charAt(tp)
      p == CASE base_type = CLASS_DIGIT -> tp < textLen /\ isDigit(c)
             [] base_type = CLASS_WORD -> tp < textLen /\ isWordChar(c)
             [] base_type = CLASS_SPACE -> tp < textLen /\ isSpace(c)
             [] OTHER -> FALSE
  IN IF negated THEN ~p ELSE p

\* The condition under which a consuming instruction advances textPos and pc.
consumes(inst, tp) ==
  CASE inst.opcode = "CHAR" -> tp < textLen /\ text[tp + 1] = inst.ch
    [] inst.opcode = "ANY" -> tp < textLen
    [] inst.opcode = "RANGE" ->
         tp < textLen /\ text[tp + 1] >= inst.lo /\ text[tp + 1] <= inst.hi
    [] inst.opcode = "CLASS" ->
         tp < textLen /\ inClassExt(inst.charset_low, inst.charset_high, text[tp + 1])
    [] inst.opcode = "NOT_CLASS" ->
         tp < textLen /\ ~inClassExt(inst.charset_low, inst.charset_high, text[tp + 1])
    [] inst.opcode = "CLASS_PRED" -> predMatched(inst, tp)

ConsumingOpcodes == {"CHAR", "ANY", "RANGE", "CLASS", "NOT_CLASS", "CLASS_PRED"}

\* An ANCHOR_START that holds where the attempt began, not at offset 0.
anchorStartOkAtStart(tp) == tp = captures_[1]

\* ANCHOR_START, ANCHOR_END: the condition under which pc advances.
anchorStartOk(tp) == tp = 0
anchorEndOk(tp) == tp = textLen

\* A frame that holds the captures as executeAt reset them, not as they are
\* when the SPLIT executes.
backtrackPointWithoutCaptures(inst) ==
  [pc |-> inst.charset, textPos |-> textPos,
   savedCaptures |-> resetCaptures(captures_[1])]

\* BacktrackPoint bp of SPLIT.
backtrackPoint(inst) ==
  [pc |-> inst.charset, textPos |-> textPos, savedCaptures |-> captures_]

\* The fail label: return false on an empty stack, else restore the top
\* frame and pop it.
fail ==
  IF backtrackStack_ = <<>>
    THEN /\ phase' = "returned"
         /\ execRet' = FALSE
         /\ attempts' = Append(attempts, [pos |-> captures_[1], matched |-> FALSE,
                                          ok |-> FALSE, result |-> FreshResult])
         /\ UNCHANGED vmVars
    ELSE LET bp == backtrackStack_[Len(backtrackStack_)]
         IN /\ pc' = bp.pc
            /\ textPos' = bp.textPos
            /\ captures_' = bp.savedCaptures
            /\ backtrackStack_' = SubSeq(backtrackStack_, 1, Len(backtrackStack_) - 1)
            /\ UNCHANGED <<matched, hasCapture_, phase, execRet, attempts>>

\* Text positions past the end of the text all behave alike: every test of
\* textPos in the loop compares it with textLen or with 0.
clamp(tp) == Min(tp, textLen + 1)

\* The VM is in a loop it cannot leave: the stack holds two backtrack points
\* for the same alternative at the same (clamped) text position. The run
\* between the two pushes depends on pc and textPos alone (captures steer
\* nothing), so it repeats for ever, pushing one more frame each time.
Looping ==
  \E i, j \in 1..Len(backtrackStack_) :
    /\ i < j
    /\ backtrackStack_[i].pc = backtrackStack_[j].pc
    /\ clamp(backtrackStack_[i].textPos) = clamp(backtrackStack_[j].textPos)

\* One turn of the inner while loop: the instruction at pc. A run that is
\* in a loop is followed no further.
Step ==
  /\ phase = "exec"
  /\ ~matched
  /\ ~Looping
  /\ UNCHANGED <<handleVars, heapVars, replaceVars, text, op, start, result, tempResult, results,
                 loopVars, ret>>
  /\ IF pc >= Len(instructions_) THEN fail
     ELSE
       LET inst == instructions_[pc + 1] IN
       CASE inst.opcode \in ConsumingOpcodes ->
              IF consumes(inst, textPos)
                THEN /\ textPos' = textPos + 1
                     /\ pc' = pc + 1
                     /\ UNCHANGED <<matched, captures_, backtrackStack_,
                                    hasCapture_, phase, execRet, attempts>>
                ELSE fail
         [] inst.opcode = "JUMP" ->
              /\ pc' = inst.operand
              /\ UNCHANGED <<textPos, matched, captures_, backtrackStack_,
                             hasCapture_, phase, execRet, attempts>>
         [] inst.opcode = "SPLIT" ->
              /\ backtrackStack_' = Append(backtrackStack_, backtrackPoint(inst))
              /\ pc' = inst.operand
              /\ UNCHANGED <<textPos, matched, captures_, hasCapture_, phase,
                             execRet, attempts>>
         [] inst.opcode = "SAVE" ->
              LET group == inst.operand % 65536
                  next == inst.operand \div 65536
              IN /\ captures_' = [captures_ EXCEPT ![group + 1] = textPos]
                 /\ pc' = IF next > 0 THEN next ELSE pc + 1
                 /\ hasCapture_' = TRUE
                 /\ UNCHANGED <<textPos, matched, backtrackStack_, phase,
                                execRet, attempts>>
         [] inst.opcode = "MATCH" ->
              /\ captures_' = [captures_ EXCEPT ![2] = textPos]
              /\ matched' = TRUE
              /\ UNCHANGED <<pc, textPos, backtrackStack_, hasCapture_, phase,
                             execRet, attempts>>
         [] inst.opcode = "ANCHOR_START" ->
              IF anchorStartOk(textPos)
                THEN /\ pc' = pc + 1
                     /\ UNCHANGED <<textPos, matched, captures_, backtrackStack_,
                                    hasCapture_, phase, execRet, attempts>>
                ELSE fail
         [] inst.opcode = "ANCHOR_END" ->
              IF anchorEndOk(textPos)
                THEN /\ pc' = pc + 1
                     /\ UNCHANGED <<textPos, matched, captures_, backtrackStack_,
                                    hasCapture_, phase, execRet, attempts>>
                ELSE fail
         [] inst.opcode = "BACKREF" -> fail

(***************************************************************************)
(* VM::buildResult                                                         *)
(***************************************************************************)
\* std::string::substr(p, n): the bytes from p, at most n of them; it throws
\* std::out_of_range when p > size().
substrThrows(p) == p > textLen
substr(p, n) == SubSeq(text, p + 1, Min(p + n, textLen))

\* i's span lies in j's and is not equal to it (line 1366).
covers(j_start, j_end, i_start, i_end) ==
  j_start <= i_start /\ i_end <= j_end /\ (j_start < i_start \/ i_end < j_end)

\* is_contained after the loop over i has treated groups 1..i.
RECURSIVE isContained(_)
isContained(i) ==
  IF i = 0 THEN [g \in 0..(captureCount_ - 1) |-> FALSE]
  ELSE
    LET is_contained == isContained(i - 1)
        i_start == captures_[i * 2 + 1]
        i_end == captures_[i * 2 + 2]
    IN IF i_start = npos \/ i_end = npos THEN is_contained
       ELSE IF \E j \in 1..(captureCount_ - 1) :
                 /\ i # j
                 /\ ~is_contained[j]
                 /\ captures_[j * 2 + 1] # npos
                 /\ captures_[j * 2 + 2] # npos
                 /\ covers(captures_[j * 2 + 1], captures_[j * 2 + 2], i_start, i_end)
         THEN [is_contained EXCEPT ![i] = TRUE]
         ELSE is_contained

\* Every group kept: buildResult without the containment filter.
keptGroupsAll == [i \in 1..(captureCount_ - 1) |-> i]

\* The groups the second loop pushes an entry for, in increasing order.
keptGroups ==
  LET is_contained == isContained(captureCount_ - 1)
      RECURSIVE from(_)
      from(i) == IF i >= captureCount_ THEN <<>>
                 ELSE IF is_contained[i] THEN from(i + 1)
                 ELSE <<i>> \o from(i + 1)
  IN from(1)

\* A real-span test that also accepts an empty span (end = start).
hasSpanOrEmpty(i) ==
  captures_[i * 2 + 1] # npos /\ captures_[i * 2 + 2] # npos

\* Whether the entry of group i is a real span (else the empty sentinel).
hasSpan(i) ==
  LET s == captures_[i * 2 + 1]
      e == captures_[i * 2 + 2]
  IN s # npos /\ e # npos /\ e > s

\* The entry pushed for group i.
entry(i) ==
  IF hasSpan(i)
    THEN [start |-> captures_[i * 2 + 1], end |-> captures_[i * 2 + 2],
          captured |-> substr(captures_[i * 2 + 1],
                              captures_[i * 2 + 2] - captures_[i * 2 + 1])]
    ELSE [start |-> npos, end |-> npos, captured |-> <<>>]

\* The first k kept groups' entries.
entries(kept, k) == [n \in 1..k |-> entry(kept[n])]

\* The number of kept groups whose entry is pushed before a substr throws
\* (all of them when none does).
pushedBeforeThrow(kept) ==
  LET bad == {n \in 1..Len(kept) :
                hasSpan(kept[n]) /\ substrThrows(captures_[kept[n] * 2 + 1])}
  IN IF bad = {} THEN Len(kept)
     ELSE (CHOOSE n \in bad : \A m \in bad : n <= m) - 1

\* buildResult(text, r): the MatchResult it leaves in r, and whether it threw.
\* The fields are written in order, so a throw leaves the earlier writes.
buildResult(r) ==
  LET head == [r EXCEPT !.written = TRUE, !.matched = TRUE,
                        !.position = captures_[1]]
      kept == keptGroups
      k == pushedBeforeThrow(kept)
  IN IF substrThrows(captures_[1])
       THEN [threw |-> TRUE, result |-> head]
       ELSE [threw |-> k < Len(kept),
             result |-> [head EXCEPT
                           !.matched_text = substr(captures_[1],
                                                   captures_[2] - captures_[1]),
                           !.captures = entries(kept, k)]]

\* if (matched) { hasCapture_ = true; buildResult(text, result); return true; }
\* result is the caller's MatchResult in match, the loop's local otherwise.
Finish ==
  /\ phase = "exec"
  /\ matched
  /\ LET target == IF op = "match" THEN result ELSE tempResult
         built == buildResult(target)
     IN /\ IF op = "match"
             THEN result' = built.result /\ UNCHANGED tempResult
             ELSE tempResult' = built.result /\ UNCHANGED result
        /\ phase' = IF built.threw THEN "threw" ELSE "returned"
        /\ execRet' = IF built.threw THEN execRet ELSE TRUE
        /\ attempts' = Append(attempts, [pos |-> captures_[1], matched |-> TRUE,
                                         ok |-> ~built.threw,
                                         result |-> built.result])
  /\ hasCapture_' = TRUE
  /\ UNCHANGED <<handleVars, heapVars, replaceVars, text, op, start, pc, textPos, matched, captures_,
                 backtrackStack_, results, loopVars, ret>>

(***************************************************************************)
(* Regex: construction, match, search, searchAll                           *)
(***************************************************************************)
\* No call in progress: the locals and results of the facade calls.
noCall ==
  /\ backtrackStack_ = <<>>
  /\ hasCapture_ = FALSE
  /\ text = <<>>
  /\ op = "none"
  /\ start = 0
  /\ pc = 0
  /\ textPos = 0
  /\ matched = FALSE
  /\ execRet = FALSE
  /\ result = FreshResult
  /\ tempResult = FreshResult
  /\ results = <<>>
  /\ pos = 0
  /\ prevMatchLen = 0
  /\ ret = FALSE
  /\ attempts = <<>>
  /\ caller = "none"
  /\ original = <<>>
  /\ replacement = <<>>
  /\ all = FALSE
  /\ substitutions = <<>>

\* The Regex objects and the threads of the specifications of several
\* handles. engine_ is the index of a VM object in vms.
nullptr == 0
Slots == 1..3
Threads == 1..2

\* A slot that holds no object.
NoHandle ==
  [live |-> FALSE, pattern_ |-> <<>>, instructions_ |-> <<>>, numCaptures_ |-> 0,
   compiled_ |-> FALSE, engine_ |-> nullptr]

\* The locals of a thread that is in no call.
idleLocals ==
  [text |-> <<>>, op |-> "none", start |-> 0, phase |-> "idle", pc |-> 0,
   textPos |-> 0, matched |-> FALSE, execRet |-> FALSE, result |-> FreshResult,
   tempResult |-> FreshResult, results |-> <<>>, pos |-> 0, prevMatchLen |-> 0,
   ret |-> FALSE, attempts |-> <<>>]

noSolo ==
  [text |-> <<>>, start |-> 0, phase |-> "none", ret |-> FALSE,
   result |-> FreshResult]

\* What a call on a handle just made begins with, the caller's MatchResult
\* being r.
Began(r, vmCaptures) == [result |-> r, captures_ |-> vmCaptures]

noRecord ==
  [locals |-> idleLocals, began |-> Began(FreshResult, <<>>), caller |-> "none",
   original |-> <<>>, replacement |-> <<>>, all |-> FALSE]

\* No call has ended.
noReuse ==
  /\ calls = 0
  /\ began = Began(FreshResult, <<>>)
  /\ recorded = noRecord

\* No handle has been made and no thread started.
noHeap ==
  /\ noReuse
  /\ handles = [s \in Slots |-> NoHandle]
  /\ vms = <<>>
  /\ operations = 0
  /\ thread = 1
  /\ using = [t \in Threads |-> 0]
  /\ parked = [t \in Threads |-> idleLocals]
  /\ solo = [t \in Threads |-> noSolo]

\* Regex::Regex -> compile(); VM::VM. The handle of a pattern that compiles:
\* one handle and one thread, the handle's and its VM's members being the
\* variables pattern_ ... hasCapture_.
Init ==
  /\ noHeap
  /\ stage = "call"
  /\ pattern_ \in PatternSources
  /\ Regex_compile(pattern_).compiled
  /\ compiled_ = TRUE
  /\ thrown = npos
  /\ instructions_ = Regex_compile(pattern_).instructions
  /\ numCaptures_ = Regex_compile(pattern_).numCaptures
  /\ captures_ = [i \in 1..((Regex_compile(pattern_).numCaptures + 1) * 2) |-> npos]
  /\ phase = "idle"
  /\ noCall

\* if (!compiled_) return false; (searchAll: return results;)
notCompiledReturn ==
  /\ phase' = "done"
  /\ ret' = FALSE
  /\ UNCHANGED vmVars

\* A match that ignores start and attempts at offset 0.
matchOffsetZero(s) == 0

\* The offset Regex::match hands to executeAt.
matchOffset(s) == s

\* Regex::match(text, result, start), up to the entry of executeAt. The
\* caller passes a default-initialised MatchResult.
MatchCall ==
  /\ phase = "idle"
  /\ \E t \in Texts, s \in 0..(MaxLen + 1) :
       /\ s <= Len(t) + 1
       /\ text' = t
       /\ start' = s
       /\ op' = "match"
       /\ IF compiled_
            THEN /\ phase' = "exec"
                 /\ enterExecuteAt(matchOffset(s))
                 /\ UNCHANGED ret
            ELSE notCompiledReturn
  /\ UNCHANGED <<handleVars, heapVars, replaceVars, execRet, result, tempResult, results, loopVars,
                 attempts>>

\* A failed call that clears the caller's MatchResult.
clearedResult(r) == [FreshResult EXCEPT !.written = TRUE]

\* The caller's MatchResult r after executeAt has returned false: nothing
\* was written to it (buildResult is called on the MATCH path only).
failedResult(r) == r

\* Regex::match: return engine_->executeAt(text, start, result).
MatchReturn ==
  /\ phase = "returned"
  /\ op = "match"
  /\ ret' = execRet
  /\ phase' = "done"
  /\ result' = IF execRet THEN result ELSE failedResult(result)
  /\ UNCHANGED <<handleVars, heapVars, replaceVars, text, op, start, vmVars, execRet,
                 tempResult, results, loopVars, attempts>>

\* The loop test of search and searchAll at offset p: one more attempt with a
\* new local MatchResult, or the end of the loop.
nextAttempt(p) ==
  IF p <= textLen'
    THEN /\ tempResult' = FreshResult
         /\ enterExecuteAt(p)
         /\ phase' = "exec"
         /\ UNCHANGED ret
    ELSE /\ phase' = "done"
         /\ ret' = FALSE
         /\ UNCHANGED <<tempResult, vmVars>>

\* Regex::search(text, result, start) -> VM::search, up to the first
\* executeAt.
SearchCall ==
  /\ phase = "idle"
  /\ \E t \in Texts, s \in 0..(MaxLen + 1) :
       /\ s <= Len(t) + 1
       /\ text' = t
       /\ start' = s
       /\ pos' = s
  /\ op' = "search"
  /\ prevMatchLen' = 0
  /\ IF compiled_
       THEN nextAttempt(pos')
       ELSE notCompiledReturn /\ UNCHANGED tempResult
  /\ UNCHANGED <<handleVars, heapVars, replaceVars, execRet, result, results, attempts>>

\* VM::search: a zero-width match is passed over (line 1314).
skipsZeroWidth(matchLen, prev, p) == matchLen = 0 /\ matchLen = prev /\ p < textLen

\* VM::search: the loop body after executeAt has returned, and the next loop
\* test.
SearchNext ==
  /\ phase = "returned"
  /\ UNCHANGED <<handleVars, heapVars, replaceVars, text, op, start, execRet, results, attempts>>
  /\ op = "search"
  /\ IF execRet /\ ~skipsZeroWidth(length(tempResult), prevMatchLen, pos)
       THEN /\ result' = tempResult
            /\ ret' = TRUE
            /\ phase' = "done"
            /\ UNCHANGED <<tempResult, vmVars, loopVars>>
       ELSE /\ pos' = pos + 1
            /\ \E m \in matchedValues(tempResult) :
                 prevMatchLen' = IF pos' < textLen /\ m THEN length(tempResult) ELSE 0
            /\ nextAttempt(pos')
            /\ UNCHANGED result

\* Regex::searchAll(text), up to the first executeAt.
SearchAllCall ==
  /\ phase = "idle"
  /\ \E t \in Texts : text' = t
  /\ op' = "searchAll"
  /\ pos' = 0
  /\ prevMatchLen' = 0
  /\ IF compiled_
       THEN nextAttempt(0)
       ELSE notCompiledReturn /\ UNCHANGED tempResult
  /\ UNCHANGED <<handleVars, heapVars, replaceVars, start, execRet, result, results, attempts>>

\* Resuming at the end of the match without the forced byte, and resuming
\* one byte after the start of the match.
searchAllAdvanceNoForce(r) == r.position + length(r)
searchAllAdvanceByOne(r) == r.position + 1

\* Regex::searchAll: where the scan resumes after the recorded match r.
searchAllAdvance(r) == r.position + (IF length(r) > 0 THEN length(r) ELSE 1)

\* Regex::searchAll: the loop body after executeAt has returned, and the next
\* loop test.
SearchAllNext ==
  /\ phase = "returned"
  /\ UNCHANGED <<handleVars, heapVars, replaceVars, text, op, start, execRet, result, attempts>>
  /\ op = "searchAll"
  /\ IF execRet
       THEN LET matchLen == length(tempResult) IN
            IF matchLen = 0 /\ matchLen = prevMatchLen /\ pos < textLen
              THEN /\ pos' = pos + 1
                   /\ UNCHANGED <<results, prevMatchLen>>
              ELSE /\ results' = Append(results, tempResult)
                   /\ pos' = searchAllAdvance(tempResult)
                   /\ prevMatchLen' = matchLen
       ELSE /\ pos' = pos + 1
            /\ prevMatchLen' = 0
            /\ UNCHANGED results
  /\ nextAttempt(pos')

Next ==
  \/ MatchCall
  \/ SearchCall
  \/ SearchAllCall
  \/ Step
  \/ Finish
  \/ MatchReturn
  \/ SearchNext
  \/ SearchAllNext

Spec == Init /\ [][Next]_vars

(***************************************************************************)
(* Construction from any pattern, the ones that do not compile included,   *)
(* followed by match.                                                      *)
(***************************************************************************)
\* The decimal digit n as a pattern character.
DigitChar(n) == <<"0", "1", "2", "3", "4", "5">>[n + 1]

\* Patterns of atoms and opening characters.
OpenSources ==
  UNION {[1..n -> {"a", "(", "[", "{"}] : n \in 1..MaxOpenLen}

\* Groups with a modifier: (?:X), (?=X), (?!X), alone or after an atom.
ModifiedSources ==
  {pre \o <<"(", "?", m>> \o X \o <<")">> :
     pre \in {<<>>, <<"1">>}, m \in {":", "=", "!"},
     X \in {<<"a">>, <<"a", "1">>, <<"a", "*">>}}
  \cup {<<"(", "?", m, "a", "|", "1", ")">> : m \in {":", "=", "!"}}

\* Bounded quantifiers X{n} and X{n,m}.
BoundedSources ==
  {<<X, "{", DigitChar(n), "}">> : X \in {"a", "."}, n \in 0..MaxRepeat}
  \cup {<<X, "{", DigitChar(n), ",", DigitChar(m), "}">> :
           X \in {"a", "."}, n \in 0..MaxRepeat, m \in 0..MaxRepeat}

\* Patterns with a space or a tab before, between, after or in place of
\* their atoms, and with an escaped space.
BlankSources ==
  UNION {{<<b, "a">>, <<"a", b, "1">>, <<"a", b>>, <<"(", b, "a", ")">>,
          <<"a", b, "*">>, <<"a", b, b>>, <<b>>, <<"a", "|", b>>, <<"\\", b>>,
          <<"\\", b, b>>} : b \in {" ", "\t"}}

\* Patterns with a backslash before a digit.
BackrefSources ==
  { <<"(", "a", ")", "\\", "1">>, <<"\\", "1">>, <<"a", "\\", "2">>,
    <<"(", "a", "|", "1", ")", "\\", "1", "*">> }

\* Patterns whose programs nest alternations, loops, options and groups.
NestedSources ==
  PatternSources
    \cup { <<"a", "|", "1", "|", "a">>, <<"(", "a", "|", "1", ")", "*">>,
           <<"(", "a", "+", "|", "1", "?", ")">>,
           <<"(", "(", "a", ")", "|", "1", ")", "+">>,
           <<"a", "?", "|", "1", "*">>, <<"(", "a", "|", "1", ")", "{", "2", "}">>,
           <<"(", "a", ")", "{", "0", "}">>, <<"(", "a", "*", ")", "?">> }

\* Patterns of literals with a ',' or a '-' outside braces and brackets,
\* as the first atom or a later one.
PunctuationSources ==
  UNION {{<<c>>, <<c, "a">>, <<"a", c>>, <<"a", c, "1">>, <<c, c>>,
          <<"a", "1", c, "a">>} : c \in {",", "-"}}

CompileSources ==
  OpenSources \cup ModifiedSources \cup BoundedSources \cup BlankSources
    \cup BackrefSources \cup NestedSources \cup PunctuationSources

\* Before the constructor has run.
CompileInit ==
  /\ noHeap
  /\ stage = "call"
  /\ pattern_ \in CompileSources
  /\ compiled_ = FALSE
  /\ thrown = npos
  /\ instructions_ = <<>>
  /\ numCaptures_ = 0
  /\ captures_ = <<>>
  /\ phase = "new"
  /\ noCall

\* Regex::Regex(pattern): compile(), which leaves a compiled handle with its
\* VM or rethrows the RegexError (no handle is produced).
Construct ==
  /\ phase = "new"
  /\ LET c == Regex_compile(pattern_)
     IN /\ compiled_' = c.compiled
        /\ thrown' = IF c.compiled THEN npos ELSE c.position
        /\ instructions_' = c.instructions
        /\ numCaptures_' = c.numCaptures
        /\ captures_' = IF c.compiled
                          THEN [i \in 1..((c.numCaptures + 1) * 2) |-> npos]
                          ELSE <<>>
        /\ phase' = IF c.compiled THEN "idle" ELSE "no handle"
  /\ UNCHANGED <<heapVars, replaceVars, pattern_, text, op, start, pc, textPos, matched,
                 backtrackStack_, hasCapture_, execRet, result, tempResult,
                 results, loopVars, ret, attempts>>

CompileNext ==
  \/ Construct
  \/ MatchCall
  \/ Step
  \/ Finish
  \/ MatchReturn

CompileSpec == CompileInit /\ [][CompileNext]_vars

(***************************************************************************)
(* What a pattern matches, read off its tree: Ends(node, p) is the set of  *)
(* offsets at which some match of node that begins at offset p ends. A     *)
(* leaf matches what its instruction accepts. Used to state the claims.    *)
(***************************************************************************)
\* Offsets past the end that a halting attempt can reach: each consuming
\* instruction runs at most once past the end of the text.
Offsets == 0..(textLen + Len(instructions_))

RECURSIVE Ends(_, _)
RECURSIVE EndsFrom(_, _)
\* The offsets reached from the set ps by one match of node.
EndsFrom(node, ps) == UNION {Ends(node, p) : p \in ps}

\* The offsets reached from the set ps by zero or more matches of node.
RECURSIVE StarEnds(_, _)
StarEnds(node, ps) ==
  LET more == (EndsFrom(node, ps) \cap Offsets) \ ps
  IN IF more = {} THEN ps ELSE StarEnds(node, ps \cup more)

Ends(node, p) ==
  CASE node.type \in {"LITERAL", "DOT", "CLASS", "NOT_CLASS"} ->
         IF consumes(compileNode(node, <<>>)[1], p) THEN {p + 1} ELSE {}
    [] node.type = "ANCHOR_START" -> IF p = 0 THEN {p} ELSE {}
    [] node.type = "ANCHOR_END" -> IF p = textLen THEN {p} ELSE {}
    [] node.type = "CONCAT" ->
         EndsFrom(node.children[2], Ends(node.children[1], p))
    [] node.type = "ALTERNATE" ->
         Ends(node.children[1], p) \cup Ends(node.children[2], p)
    [] node.type = "GROUP" -> Ends(node.children[1], p)
    [] node.type = "REPEAT" /\ node.maxRepeat = UINT32_MAX /\ node.minRepeat = 0 ->
         StarEnds(node.children[1], {p})
    [] node.type = "REPEAT" /\ node.maxRepeat = UINT32_MAX /\ node.minRepeat > 0 ->
         StarEnds(node.children[1], Ends(node.children[1], p))
    [] node.type = "REPEAT" /\ node.maxRepeat = 1 /\ node.minRepeat = 0 ->
         {p} \cup Ends(node.children[1], p)

\* The largest element of a non-empty set of offsets.
Largest(ps) == CHOOSE p \in ps : \A q \in ps : q <= p
Smallest(ps) == CHOOSE p \in ps : \A q \in ps : p <= q

ast == Regex_compile(pattern_).ast

\* The bytes of text at offsets from..(to - 1) that exist.
bytes(from, to) == [i \in 1..(Min(to, textLen) - from) |-> text[from + i]]

\* executeAt has just reached MATCH (the result is not yet built).
AtMatch == phase = "exec" /\ matched

(***************************************************************************)
(* MatchResult::group, group_start, group_end                              *)
(***************************************************************************)
\* A group that has no case for the whole match.
groupOfCaptures(r, idx) ==
  IF idx > 0 /\ idx <= Len(r.captures) THEN r.captures[idx].captured ELSE <<>>

group(r, idx) ==
  IF idx = 0 THEN r.matched_text
  ELSE IF idx > 0 /\ idx <= Len(r.captures) THEN r.captures[idx].captured
  ELSE <<>>
group_start(r, idx) ==
  IF idx = 0 THEN r.position
  ELSE IF idx > 0 /\ idx <= Len(r.captures) THEN r.captures[idx].start
  ELSE npos
group_end(r, idx) ==
  IF idx = 0 THEN r.position + length(r)
  ELSE IF idx > 0 /\ idx <= Len(r.captures) THEN r.captures[idx].end
  ELSE npos

(***************************************************************************)
(* Regex::replace and Regex::expandReplacement. A replacement is the       *)
(* sequence of its characters, as a pattern is.                            *)
(***************************************************************************)
isDigitChar(c) == c \in {"0", "1", "2", "3", "4", "5", "6", "7", "8", "9"}

\* The byte a backslash escape of the replacement stands for.
escapedByte(next) ==
  CASE next = "n" -> 10
    [] next = "r" -> 13
    [] next = "t" -> 9
    [] OTHER -> Ord(next)

\* The loop of expandReplacement from character i (1-based) on.
RECURSIVE expandFrom(_, _, _, _)
expandFrom(repl, i, match, expanded) ==
  IF i > Len(repl) THEN expanded
  ELSE IF repl[i] = "\\" /\ i < Len(repl)
    THEN IF isDigitChar(repl[i + 1])
           THEN expandFrom(repl, i + 2, match,
                           expanded \o group(match, Ord(repl[i + 1]) - 48))
           ELSE expandFrom(repl, i + 2, match,
                           Append(expanded, escapedByte(repl[i + 1])))
  ELSE IF repl[i] = "$" /\ i < Len(repl)
    THEN IF isDigitChar(repl[i + 1])
           THEN expandFrom(repl, i + 2, match,
                           expanded \o group(match, Ord(repl[i + 1]) - 48))
           ELSE expandFrom(repl, i + 2, match,
                           expanded \o <<Ord("$"), Ord(repl[i + 1])>>)
  ELSE expandFrom(repl, i + 1, match, Append(expanded, Ord(repl[i])))

\* Regex::expandReplacement
expandReplacement(repl, match) == expandFrom(repl, 1, match, <<>>)

\* std::string::replace(p, n, e) on s, for p <= size.
stringReplace(s, p, n, e) ==
  SubSeq(s, 1, p) \o e \o SubSeq(s, p + Min(n, Len(s) - p) + 1, Len(s))

\* Resuming after the replaced match, and one byte after the inserted
\* replacement.
replaceResumeAfterMatch(match, repl) == match.position + length(match)
replaceResumeSkipping(match, repl) == match.position + Len(repl) + 1

\* Resuming at the start of the inserted replacement.
replaceResumeAtMatch(match, repl) == match.position

\* pos = match.position + repl.length()
replaceResume(match, repl) == match.position + Len(repl)

Replacements ==
  { <<>>, <<"$", "0">>, <<"1">>, <<"a", "a">>, <<"$", "1">>, <<"\\", "1">>,
    <<"$", "a">>, <<"\\", "n">>, <<"$">> }

\* search(result, match, p) called by replace: Regex::search -> VM::search up
\* to the first executeAt, with a new MatchResult match.
searchFrom(p) ==
  /\ start' = p
  /\ pos' = p
  /\ op' = "search"
  /\ prevMatchLen' = 0
  /\ result' = FreshResult
  /\ attempts' = <<>>
  /\ nextAttempt(p)
  /\ UNCHANGED execRet

\* replace returns its string result (text).
replaceReturns ==
  /\ phase' = "replaced"
  /\ UNCHANGED <<op, start, vmVars, execRet, result, tempResult, loopVars, ret,
                 attempts>>

\* Regex::replace(text, replacement, all) up to the first search.
ReplaceCall ==
  /\ phase = "idle"
  /\ \E t \in Texts, r \in Replacements, a \in BOOLEAN :
       /\ original' = t
       /\ text' = t
       /\ replacement' = r
       /\ all' = a
  /\ caller' = "replace"
  /\ substitutions' = <<>>
  /\ IF ~compiled_ \/ (all' /\ ~(0 < textLen'))
       THEN replaceReturns
       ELSE searchFrom(0)
  /\ UNCHANGED <<handleVars, heapVars, results>>

\* Regex::replace after search has returned: the substitution and the next
\* loop test, or the break.
ReplaceNext ==
  /\ caller = "replace"
  /\ phase = "done"
  /\ op = "search"
  /\ IF ret
       THEN LET repl == expandReplacement(replacement, result)
            IN /\ text' = stringReplace(text, result.position, length(result), repl)
               /\ substitutions' =
                    Append(substitutions,
                           [position |-> result.position, length |-> length(result),
                            repl |-> repl, before |-> text])
               /\ IF all /\ replaceResume(result, repl) < textLen'
                    THEN searchFrom(replaceResume(result, repl))
                    ELSE replaceReturns
       ELSE /\ replaceReturns
            /\ UNCHANGED <<text, substitutions>>
  /\ UNCHANGED <<handleVars, heapVars, caller, original, replacement, all, results>>

ReplaceSteps == ReplaceCall \/ ReplaceNext \/ Step \/ Finish \/ SearchNext

ReplaceSpec == Init /\ [][ReplaceSteps]_vars

\* replace is one thread's straight-line code: a step that can be taken is
\* taken.
ReplaceFairSpec == ReplaceSpec /\ WF_vars(ReplaceSteps)

(***************************************************************************)
(* Regex objects: construction, copy and move, and the VM each owns.       *)
(***************************************************************************)
MaxOperations == 3

Handle(pattern, instructions, captureGroups, compiled, engine) ==
  [live |-> TRUE, pattern_ |-> pattern, instructions_ |-> instructions,
   numCaptures_ |-> captureGroups, compiled_ |-> compiled, engine_ |-> engine]

\* VM::VM(instructions, captureCount): its own copy of the instructions.
VM(instructions, captureCount) ==
  [live |-> TRUE, instructions_ |-> instructions, captureCount_ |-> captureCount,
   captures_ |-> [i \in 1..(captureCount * 2) |-> npos],
   backtrackStack_ |-> <<>>, hasCapture_ |-> FALSE]

\* std::make_unique<VM>(instructions, captureCount) on the heap: the new
\* heap, the new object being the last.
make_unique(heap, instructions, captureCount) ==
  Append(heap, VM(instructions, captureCount))

\* The unique_ptr engine lets go of its VM, which is destroyed.
destroyed(heap, engine) ==
  IF engine = nullptr THEN heap ELSE [heap EXCEPT ![engine].live = FALSE]

\* A copy that takes the VM of the handle it copies.
sharedEngine(other, fresh) == other.engine_

\* The engine_ of a copy of other that is compiled: the VM just made for it.
copiedEngine(other, fresh) == fresh

\* A moved-from handle that stays as compiled as it was.
movedFromStaysCompiled(compiled) == compiled

\* other.compiled_ = false
movedFromCompiled(compiled) == FALSE

\* What the moves leave in other: pattern_ and instructions_ moved from
\* (empty), engine_ null.
movedFrom(other) ==
  [other EXCEPT !.pattern_ = <<>>, !.instructions_ = <<>>, !.engine_ = nullptr,
                !.compiled_ = movedFromCompiled(other.compiled_)]

\* The handle and the heap after "copy the members of other; if (compiled_)
\* engine_ = make_unique<VM>(instructions_, numCaptures_ + 1)".
copyOf(other, heap) ==
  IF other.compiled_
    THEN [handle |-> Handle(other.pattern_, other.instructions_,
                            other.numCaptures_, TRUE,
                            copiedEngine(other, Len(heap) + 1)),
          heap |-> make_unique(heap, other.instructions_, other.numCaptures_ + 1)]
    ELSE [handle |-> Handle(other.pattern_, other.instructions_,
                            other.numCaptures_, FALSE, nullptr),
          heap |-> heap]

setupStep ==
  /\ stage = "setup"
  /\ operations < MaxOperations
  /\ operations' = operations + 1
  /\ UNCHANGED <<handleVars, replaceVars, reuseVars, stage, thread, using, parked,
                 solo, text, op, start, phase, vmVars, execRet, result, tempResult,
                 results, loopVars, ret, attempts>>

\* Regex slot(pattern): a handle with its VM, or the RegexError and no object.
ConstructHandle(slot, pattern) ==
  /\ setupStep
  /\ ~handles[slot].live
  /\ LET c == Regex_compile(pattern)
     IN IF c.compiled
          THEN /\ handles' = [handles EXCEPT ![slot] =
                                Handle(pattern, c.instructions, c.numCaptures,
                                       TRUE, Len(vms) + 1)]
               /\ vms' = make_unique(vms, c.instructions, c.numCaptures + 1)
          ELSE UNCHANGED <<handles, vms>>

\* Regex dst(src): the copy constructor.
CopyConstruct(dst, src) ==
  /\ setupStep
  /\ ~handles[dst].live
  /\ handles[src].live
  /\ handles' = [handles EXCEPT ![dst] = copyOf(handles[src], vms).handle]
  /\ vms' = copyOf(handles[src], vms).heap

\* dst = src: the copy assignment.
CopyAssign(dst, src) ==
  /\ setupStep
  /\ handles[dst].live
  /\ handles[src].live
  /\ IF dst = src
       THEN UNCHANGED <<handles, vms>>
       ELSE /\ handles' = [handles EXCEPT ![dst] = copyOf(handles[src], vms).handle]
            /\ vms' = destroyed(copyOf(handles[src], vms).heap, handles[dst].engine_)

\* Regex dst(std::move(src)): the move constructor.
MoveConstruct(dst, src) ==
  /\ setupStep
  /\ ~handles[dst].live
  /\ handles[src].live
  /\ handles' = [handles EXCEPT ![dst] = handles[src],
                                ![src] = movedFrom(handles[src])]
  /\ UNCHANGED vms

\* dst = std::move(src): the move assignment.
MoveAssign(dst, src) ==
  /\ setupStep
  /\ handles[dst].live
  /\ handles[src].live
  /\ IF dst = src
       THEN UNCHANGED <<handles, vms>>
       ELSE /\ handles' = [handles EXCEPT ![dst] = handles[src],
                                          ![src] = movedFrom(handles[src])]
            /\ vms' = destroyed(vms, handles[dst].engine_)

\* The members of the VM v become those the running call executes on.
loadVM(v) ==
  /\ instructions_' = v.instructions_
  /\ numCaptures_' = v.captureCount_ - 1
  /\ captures_' = v.captures_
  /\ backtrackStack_' = v.backtrackStack_
  /\ hasCapture_' = v.hasCapture_

\* The running thread turns to the handle h, its VM being in heap.
loadHandle(h, heap) ==
  /\ pattern_' = h.pattern_
  /\ compiled_' = h.compiled_
  /\ IF h.engine_ # nullptr
       THEN loadVM(heap[h.engine_])
       ELSE /\ instructions_' = h.instructions_
            /\ numCaptures_' = h.numCaptures_
            /\ captures_' = <<>>
            /\ backtrackStack_' = <<>>
            /\ hasCapture_' = FALSE

\* A VM whose captures_ and backtrackStack_ each call has for itself:
\* nothing a call writes reaches the object.
notStored(heap, engine) == heap

\* The heap once the members of the VM the running call executes on are
\* written to the object engine.
stored(heap, engine) ==
  IF engine = nullptr THEN heap
  ELSE [heap EXCEPT ![engine].captures_ = captures_,
                    ![engine].backtrackStack_ = backtrackStack_,
                    ![engine].hasCapture_ = hasCapture_]

currentLocals ==
  [text |-> text, op |-> op, start |-> start, phase |-> phase, pc |-> pc,
   textPos |-> textPos, matched |-> matched, execRet |-> execRet,
   result |-> result, tempResult |-> tempResult, results |-> results,
   pos |-> pos, prevMatchLen |-> prevMatchLen, ret |-> ret,
   attempts |-> attempts]

loadLocals(l) ==
  /\ text' = l.text
  /\ op' = l.op
  /\ start' = l.start
  /\ phase' = l.phase
  /\ pc' = l.pc
  /\ textPos' = l.textPos
  /\ matched' = l.matched
  /\ execRet' = l.execRet
  /\ result' = l.result
  /\ tempResult' = l.tempResult
  /\ results' = l.results
  /\ pos' = l.pos
  /\ prevMatchLen' = l.prevMatchLen
  /\ ret' = l.ret
  /\ attempts' = l.attempts

\* The thread starts to call the methods of the handle in slot. Every method
\* of a handle with compiled_ set goes through engine_ (replace of an empty
\* text apart): with a null engine_ the call dereferences a null pointer.
Use(slot) ==
  /\ stage = "setup"
  /\ handles[slot].live
  /\ stage' = "call"
  /\ using' = [using EXCEPT ![thread] = slot]
  /\ loadHandle(handles[slot], vms)
  /\ phase' = IF handles[slot].compiled_ /\ handles[slot].engine_ = nullptr
                THEN "null dereference"
                ELSE "idle"
  /\ UNCHANGED <<thrown, replaceVars, reuseVars, handles, vms, operations, thread,
                 parked, solo, text, op, start, pc, textPos, matched, execRet, result,
                 tempResult, results, loopVars, ret, attempts>>

\* The patterns and the texts of the specifications of several handles.
HandleSources ==
  { <<"(", "a", "*", ")", "1">>, <<"a", "|", "a", "1">>, <<"a", "(">> }
HandleTexts == { <<>>, <<Ord("a"), Ord("1")>> }

HandleInit ==
  /\ noHeap
  /\ stage = "setup"
  /\ pattern_ = <<>>
  /\ compiled_ = FALSE
  /\ thrown = npos
  /\ instructions_ = <<>>
  /\ numCaptures_ = 0
  /\ captures_ = <<>>
  /\ phase = "setup"
  /\ noCall

HandleNext ==
  \/ \E slot \in Slots, pattern \in HandleSources : ConstructHandle(slot, pattern)
  \/ \E dst \in Slots, src \in Slots : CopyConstruct(dst, src)
  \/ \E dst \in Slots, src \in Slots : CopyAssign(dst, src)
  \/ \E dst \in Slots, src \in Slots : MoveConstruct(dst, src)
  \/ \E dst \in Slots, src \in Slots : MoveAssign(dst, src)
  \/ \E slot \in Slots : Use(slot)
  \/ MatchCall /\ text' \in HandleTexts
  \/ SearchCall /\ text' \in HandleTexts
  \/ SearchAllCall /\ text' \in HandleTexts
  \/ ReplaceCall /\ text' \in HandleTexts /\ replacement' = <<"$", "1">>
  \/ Step
  \/ Finish
  \/ MatchReturn
  \/ SearchNext
  \/ SearchAllNext
  \/ ReplaceNext

HandleSpec == HandleInit /\ [][HandleNext]_vars

(***************************************************************************)
(* Two threads, each calling match on a handle of its own: an original     *)
(* and a copy of it. A thread's call is first made alone, then the two     *)
(* calls are made again with their steps interleaved.                      *)
(***************************************************************************)
ThreadSources ==
  { <<"(", "a", "*", ")", "1">>, <<"a", "|", "a", "1">>,
    <<"(", "a", ")", "(", "1", ")">> }
ThreadTexts == { <<Ord("a"), Ord("1")>>, <<Ord("a"), Ord("a")>> }

\* The handle Regex(pattern) makes, its VM being the object engine.
constructed(pattern, engine) ==
  Handle(pattern, Regex_compile(pattern).instructions,
         Regex_compile(pattern).numCaptures, TRUE, engine)

\* The VM Regex(pattern) makes.
engineOf(pattern) ==
  VM(Regex_compile(pattern).instructions, Regex_compile(pattern).numCaptures + 1)

\* Regex original(p), and either no second object yet or Regex target(q).
ThreadInit ==
  /\ \E p \in ThreadSources, q \in ThreadSources \cup {<<>>} :
       /\ handles = [s \in Slots |->
                       IF s = 1 THEN constructed(p, 1)
                       ELSE IF s = 2 /\ q # <<>> THEN constructed(q, 2)
                       ELSE NoHandle]
       /\ vms = IF q = <<>> THEN <<engineOf(p)>>
                            ELSE <<engineOf(p), engineOf(q)>>
  /\ operations = 0
  /\ thread = 1
  /\ using = [t \in Threads |-> 0]
  /\ parked = [t \in Threads |-> idleLocals]
  /\ solo = [t \in Threads |-> noSolo]
  /\ noReuse
  /\ stage = "setup"
  /\ pattern_ = <<>>
  /\ compiled_ = FALSE
  /\ thrown = npos
  /\ instructions_ = <<>>
  /\ numCaptures_ = 0
  /\ captures_ = <<>>
  /\ phase = "setup"
  /\ noCall

\* Thread 1 takes the original, thread 2 the copy; thread 1 runs first.
StartThreads ==
  /\ stage = "setup"
  /\ operations >= 1
  /\ handles[1].live /\ handles[2].live
  /\ stage' = "solo"
  /\ thread' = 1
  /\ using' = [t \in Threads |-> t]
  /\ loadHandle(handles[1], vms)
  /\ loadLocals(idleLocals)
  /\ UNCHANGED <<thrown, replaceVars, reuseVars, handles, vms, operations, parked,
                 solo>>

\* match(text, result, 0) by the running thread; when the calls are made
\* again, with the text of the call it made alone.
ThreadMatchCall ==
  /\ MatchCall
  /\ text' \in ThreadTexts
  /\ start' = 0
  /\ stage = "concurrent" => text' = solo[thread].text

\* The call a thread made alone has ended: what it returned is kept, and the
\* other thread makes its call alone, or the two threads start again.
SoloDone ==
  /\ stage = "solo"
  /\ phase \in {"done", "threw"}
  /\ solo' = [solo EXCEPT ![thread] =
                [text |-> text, start |-> start, phase |-> phase, ret |-> ret,
                 result |-> result]]
  /\ vms' = stored(vms, handles[using[thread]].engine_)
  /\ thread' = IF thread = 1 THEN 2 ELSE 1
  /\ stage' = IF thread = 1 THEN "solo" ELSE "concurrent"
  /\ loadHandle(handles[using[thread']], vms')
  /\ loadLocals(idleLocals)
  /\ UNCHANGED <<thrown, replaceVars, reuseVars, handles, operations, using,
                 parked>>

\* The scheduler runs the other thread: it goes on from where it was, on
\* the VM of its handle as that object now is.
Switch ==
  /\ stage = "concurrent"
  /\ parked' = [parked EXCEPT ![thread] = currentLocals]
  /\ vms' = stored(vms, handles[using[thread]].engine_)
  /\ thread' = 3 - thread
  /\ loadHandle(handles[using[thread']], vms')
  /\ loadLocals(parked[thread'])
  /\ UNCHANGED <<thrown, replaceVars, reuseVars, handles, operations, stage, using,
                 solo>>

ThreadNext ==
  \/ CopyConstruct(2, 1)
  \/ CopyAssign(2, 1)
  \/ StartThreads
  \/ ThreadMatchCall
  \/ Step
  \/ Finish
  \/ MatchReturn
  \/ SoloDone
  \/ Switch

ThreadSpec == ThreadInit /\ [][ThreadNext]_vars

(***************************************************************************)
(* Two threads calling match on the same handle: each call is first made   *)
(* alone, then the two calls are made again with their steps interleaved.  *)
(* The interleavings of whole instructions are among the outcomes of the   *)
(* unsynchronised accesses.                                                *)
(***************************************************************************)
\* Regex shared(p).
SharedInit ==
  /\ \E p \in ThreadSources :
       /\ handles = [s \in Slots |-> IF s = 1 THEN constructed(p, 1) ELSE NoHandle]
       /\ vms = <<engineOf(p)>>
  /\ operations = 0
  /\ thread = 1
  /\ using = [t \in Threads |-> 0]
  /\ parked = [t \in Threads |-> idleLocals]
  /\ solo = [t \in Threads |-> noSolo]
  /\ noReuse
  /\ stage = "setup"
  /\ pattern_ = <<>>
  /\ compiled_ = FALSE
  /\ thrown = npos
  /\ instructions_ = <<>>
  /\ numCaptures_ = 0
  /\ captures_ = <<>>
  /\ phase = "setup"
  /\ noCall

\* Both threads take the one handle; thread 1 runs first.
StartShared ==
  /\ stage = "setup"
  /\ handles[1].live
  /\ stage' = "solo"
  /\ thread' = 1
  /\ using' = [t \in Threads |-> 1]
  /\ loadHandle(handles[1], vms)
  /\ loadLocals(idleLocals)
  /\ UNCHANGED <<thrown, replaceVars, reuseVars, handles, vms, operations, parked,
                 solo>>

SharedNext ==
  \/ StartShared
  \/ ThreadMatchCall
  \/ Step
  \/ Finish
  \/ MatchReturn
  \/ SoloDone
  \/ Switch

SharedSpec == SharedInit /\ [][SharedNext]_vars

(***************************************************************************)
(* One handle called several times by one caller, who hands each call a    *)
(* new MatchResult or the one of the call before; then the last call is    *)
(* made again, with the same arguments, on a handle just constructed from  *)
(* the same pattern.                                                       *)
(***************************************************************************)
MaxCalls == 2

ReuseSources ==
  { <<"(", "a", ")", "|", "(", "1", ")">>, <<"(", "a", "*", ")", "1">>,
    <<"a", "\\", "D">> }
ReuseTexts == { <<>>, <<Ord("a")>>, <<Ord("1")>>, <<Ord("a"), Ord("1")>> }
ReuseReplacements == { <<>>, <<"$", "1">> }

ReuseInit ==
  /\ noHeap
  /\ stage = "call"
  /\ pattern_ \in ReuseSources
  /\ compiled_ = TRUE
  /\ thrown = npos
  /\ instructions_ = Regex_compile(pattern_).instructions
  /\ numCaptures_ = Regex_compile(pattern_).numCaptures
  /\ captures_ = [i \in 1..((Regex_compile(pattern_).numCaptures + 1) * 2) |-> npos]
  /\ phase = "idle"
  /\ noCall

\* A call has returned to the caller or thrown.
callEnded ==
  \/ phase \in {"replaced", "threw"}
  \/ phase = "done" /\ caller = "none"

\* The caller's MatchResult after the call: replace has none of the caller's
\* (result is then its local match).
callerResult == IF caller = "replace" THEN began.result ELSE result

\* The caller is about to make a call with the MatchResult r: the locals of
\* the call that ended are gone, the members of the VM stay.
nextCall(r, vmCaptures) ==
  /\ loadLocals([idleLocals EXCEPT !.result = r])
  /\ caller' = "none"
  /\ original' = <<>>
  /\ replacement' = <<>>
  /\ all' = FALSE
  /\ substitutions' = <<>>
  /\ began' = Began(r, vmCaptures)

\* The caller turns to the same handle again, with the MatchResult of the
\* call that ended or with a new one.
Again ==
  /\ stage = "call"
  /\ callEnded
  /\ calls < MaxCalls
  /\ calls' = calls + 1
  /\ \E r \in {callerResult, FreshResult} : nextCall(r, captures_)
  /\ UNCHANGED <<handleVars, captures_, backtrackStack_, hasCapture_, handles, vms,
                 operations, stage, thread, using, parked, solo, recorded>>

\* The call that ended on the used handle is recorded, and the caller turns
\* to Regex(pattern_), a new handle with a new VM (VM::VM), to make the same
\* call with a MatchResult as it was before the recorded call.
OnFresh ==
  /\ stage = "call"
  /\ callEnded
  /\ calls >= 1
  /\ recorded' = [locals |-> currentLocals, began |-> began, caller |-> caller,
                  original |-> original, replacement |-> replacement, all |-> all]
  /\ stage' = "fresh"
  /\ captures_' = VM(instructions_, captureCount_).captures_
  /\ backtrackStack_' = VM(instructions_, captureCount_).backtrackStack_
  /\ hasCapture_' = VM(instructions_, captureCount_).hasCapture_
  /\ nextCall(began.result, captures_')
  /\ UNCHANGED <<handleVars, handles, vms, operations, thread, using, parked, solo,
                 calls>>

\* On the new handle the call is the recorded one.
asRecorded(o) ==
  stage = "fresh" =>
    /\ recorded.caller = "none"
    /\ recorded.locals.op = o
    /\ text' = recorded.locals.text
    /\ start' = recorded.locals.start

ReuseNext ==
  \/ MatchCall /\ text' \in ReuseTexts /\ asRecorded("match")
  \/ SearchCall /\ text' \in ReuseTexts /\ asRecorded("search")
  \/ SearchAllCall /\ text' \in ReuseTexts /\ asRecorded("searchAll")
  \/ /\ ReplaceCall
     /\ text' \in ReuseTexts
     /\ replacement' \in ReuseReplacements
     /\ stage = "fresh" =>
          /\ recorded.caller = "replace"
          /\ original' = recorded.original
          /\ replacement' = recorded.replacement
          /\ all' = recorded.all
  \/ Step
  \/ Finish
  \/ MatchReturn
  \/ SearchNext
  \/ SearchAllNext
  \/ ReplaceNext
  \/ Again
  \/ OnFresh

ReuseSpec == ReuseInit /\ [][ReuseNext]_vars

(***************************************************************************)
(* C1. Every match attempt halts.                                          *)
(***************************************************************************)
\* C1: a match attempt (VM::executeAt) halts after finitely many steps with
\* success or no-match and a finite backtrack stack, for every compiled
\* pattern, text and start offset. A halting attempt never holds two
\* backtrack points for the same alternative at the same (clamped) text
\* position: from the second push on, the deterministic run repeats what it
\* did from the first, one frame deeper each time, and never returns.
C1_EveryAttemptHalts == phase = "exec" => ~Looping

(***************************************************************************)
(* C2. search returns the first hit.                                       *)
(***************************************************************************)
\* C2: Regex::search(text, result, start) returns true exactly when
\* executeAt succeeds at some offset p with start <= p <= len(text), and its
\* result is executeAt's at the smallest such p, zero-width or not. search
\* tries the offsets in increasing order, so when it has returned the
\* smallest such p is the first successful attempt it made.
C2_SearchReturnsFirstHit ==
  (op = "search" /\ phase = "done") =>
    LET hits == {i \in 1..Len(attempts) : attempts[i].ok}
    IN /\ \A i \in 1..Len(attempts) : attempts[i].pos = start + i - 1
       /\ ret <=> hits # {}
       /\ ret => result = attempts[Smallest(hits)].result
       /\ ~ret => Len(attempts) = Max(textLen - start + 1, 0)

(***************************************************************************)
(* C3. match attempts the match at start only.                             *)
(***************************************************************************)
\* C3: Regex::match(text, result, start) makes one attempt, at offset start,
\* returns what that attempt returns (true exactly when the pattern has a
\* match beginning at start, which need not reach the end of the text), and
\* on success result.position = start and result.matched_text is the bytes of
\* text from start to the offset where MATCH was executed.
C3_MatchAtStartOnly ==
  (op = "match" /\ phase = "done") =>
    /\ Len(attempts) = 1
    /\ attempts[1].pos = start
    /\ ret = attempts[1].ok
    /\ ret <=> Ends(ast, start) # {}
    /\ ret => /\ result.written /\ result.matched
              /\ result.position = start
              /\ result.matched_text = bytes(start, captures_[2])
              /\ captures_[2] \in Ends(ast, start)

\* A match from an offset > 0 that stops before the end of the text.
C3_Witness ==
  /\ op = "match" /\ phase = "done" /\ ret
  /\ start > 0
  /\ result.position + length(result) < textLen

(***************************************************************************)
(* C4. searchAll's results are ordered and do not overlap.                 *)
(***************************************************************************)
\* C4: the matches searchAll has collected are in strictly increasing order
\* of position and do not overlap: each begins at or after the previous
\* one's position + max(length, 1).
C4_SearchAllNonOverlap ==
  op = "searchAll" =>
    \A i \in 1..(Len(results) - 1) :
      results[i + 1].position >= results[i].position + Max(length(results[i]), 1)

\* searchAll has returned a match of two bytes or more followed by a
\* zero-width match.
C4_Witness ==
  /\ op = "searchAll" /\ phase = "done"
  /\ \E i \in 1..(Len(results) - 1) :
       length(results[i]) >= 2 /\ length(results[i + 1]) = 0

(***************************************************************************)
(* C5. searchAll's scan offset strictly increases.                         *)
(***************************************************************************)
\* C5: in searchAll every loop iteration (a recorded match, a skipped
\* zero-width match, a failed attempt) moves the scan offset forward: the
\* attempts are made at strictly increasing offsets <= len(text), so there
\* are at most len(text) + 1 of them.
C5_SearchAllScanAdvances ==
  op = "searchAll" =>
    /\ \A i \in 1..(Len(attempts) - 1) : attempts[i].pos < attempts[i + 1].pos
    /\ \A i \in 1..Len(attempts) : attempts[i].pos <= textLen
    /\ Len(attempts) <= textLen + 1
    /\ (phase \in {"exec", "done"} /\ attempts # <<>>) =>
         attempts[Len(attempts)].pos < pos

\* searchAll has returned after len(text) + 1 attempts, among them a
\* recorded match, a recorded zero-width match and a zero-width match it
\* skipped.
C5_Witness ==
  /\ op = "searchAll" /\ phase = "done"
  /\ textLen >= 2
  /\ Len(attempts) = textLen + 1
  /\ \E n \in 1..Len(results) : length(results[n]) > 0
  /\ \E n \in 1..Len(results) : length(results[n]) = 0
  /\ \E i \in 1..Len(attempts) :
       /\ attempts[i].ok
       /\ \A n \in 1..Len(results) : results[n].position # attempts[i].pos

(***************************************************************************)
(* Shapes of the patterns the claims below are about.                      *)
(***************************************************************************)
isStar(node) ==
  node.type = "REPEAT" /\ node.minRepeat = 0 /\ node.maxRepeat = UINT32_MAX

\* (A*)B: a captured star followed by the rest of the pattern.
StarThenB ==
  /\ ast.type = "CONCAT" /\ Len(ast.children) = 2
  /\ ast.children[1].type = "GROUP"
  /\ isStar(ast.children[1].children[1])
StarBody == ast.children[1].children[1].children[1]
StarRest == ast.children[2]

\* Where A* stopped: the group's closing SAVE is the last instruction
\* executed between A* and B, so its slot holds the offset at which A* ended
\* (the slot is the one of the index the parser gave the group).
StarStoppedAt == captures_[ast.children[1].groupIndex * 2 + 2]

\* The offsets q at which A* can stop, starting at s, such that B matches
\* from q: the prefixes s..q that are concatenations of matches of A and
\* after which the remainder matches B.
StarStops(s) ==
  {q \in StarEnds(StarBody, {s}) : Ends(StarRest, q) # {}}

\* At every offset of the input, all matches of node have the same length.
OneLength(node) == \A p \in Offsets : Cardinality(Ends(node, p)) <= 1

(***************************************************************************)
(* C6. Greedy maximality.                                                  *)
(***************************************************************************)
\* C6 as stated: for a pattern A*B, when a match at an offset succeeds the
\* part of the input consumed by A* is the longest prefix from that offset
\* that is a concatenation of matches of A and after which the remainder
\* matches B.
C6_GreedyLongest ==
  (AtMatch /\ StarThenB) =>
    StarStoppedAt = Largest(StarStops(captures_[1]))

\* C6 amended: the same, for an A all of whose matches at one offset have
\* the same length (a literal, '.', a class, a fixed-length sequence).
C6_GreedyLongestOneLength ==
  (AtMatch /\ StarThenB /\ OneLength(StarBody)) =>
    StarStoppedAt = Largest(StarStops(captures_[1]))

\* A* gave back part of what it could consume so that B could match, and
\* still consumed something.
C6_Witness ==
  /\ AtMatch /\ StarThenB /\ OneLength(StarBody)
  /\ StarStoppedAt > captures_[1]
  /\ StarStoppedAt < Largest(StarEnds(StarBody, {captures_[1]}))

(***************************************************************************)
(* C7. Alternation precedence.                                             *)
(***************************************************************************)
AltPattern == ast.type = "ALTERNATE"
AltLeft == ast.children[1]
AltRight == ast.children[2]
\* The program addresses of R's fragment in SPLIT, L, JUMP, R, MATCH
\* (addresses count from 0).
AltRightFirst == Len(compileNode(AltLeft, <<>>)) + 2
AltRightPcs == AltRightFirst..(Len(instructions_) - 2)

\* C7: for a pattern L|R an attempt at an offset succeeds iff L or R matches
\* there; when L can complete a match the reported match is one through L,
\* with R still pending as the untried alternative; R is entered only when
\* L has no match at the offset.
C7_AlternationPrecedence ==
  AltPattern =>
    /\ \A i \in 1..Len(attempts) :
         attempts[i].matched <=>
           (Ends(AltLeft, attempts[i].pos) \cup Ends(AltRight, attempts[i].pos)) # {}
    /\ (AtMatch /\ Ends(AltLeft, captures_[1]) # {}) =>
         /\ captures_[2] \in Ends(AltLeft, captures_[1])
         /\ backtrackStack_ # <<>>
         /\ backtrackStack_[1].pc = AltRightFirst
         /\ backtrackStack_[1].textPos = captures_[1]
    /\ (phase = "exec" /\ ~matched /\ pc \in AltRightPcs) =>
         Ends(AltLeft, captures_[1]) = {}

\* Both alternatives match at the offset, with different spans, and the
\* reported span is L's.
C7_Witness ==
  /\ AltPattern /\ AtMatch
  /\ Ends(AltLeft, captures_[1]) # {}
  /\ Ends(AltRight, captures_[1]) # {}
  /\ captures_[2] \notin Ends(AltRight, captures_[1])

(***************************************************************************)
(* C8. Anchor correctness.                                                 *)
(***************************************************************************)
\* ^P and P$ with no top-level alternation.
StartAnchored == ast.type = "CONCAT" /\ ast.children[1].type = "ANCHOR_START"
EndAnchored ==
  ast.type = "CONCAT" /\ ast.children[Len(ast.children)].type = "ANCHOR_END"

\* C8: for a pattern ^P every successful match attempt started at offset 0,
\* so match and search with start > 0 fail and every searchAll result has
\* position 0; for a pattern P$ every successful match ends at len(text).
C8_AnchorCorrectness ==
  /\ StartAnchored =>
       /\ AtMatch => captures_[1] = 0
       /\ \A i \in 1..Len(attempts) : attempts[i].matched => attempts[i].pos = 0
       /\ (phase = "done" /\ op \in {"match", "search"} /\ start > 0) => ~ret
       /\ \A n \in 1..Len(results) : results[n].position = 0
  /\ EndAnchored =>
       /\ AtMatch => captures_[2] = textLen
       /\ \A i \in 1..Len(attempts) :
            attempts[i].ok =>
              attempts[i].result.position + length(attempts[i].result) = textLen
       /\ \A n \in 1..Len(results) :
            results[n].position + length(results[n]) = textLen

\* search from an offset > 0 has failed for ^P although P matches at that
\* offset.
C8_Witness ==
  /\ StartAnchored
  /\ op = "search" /\ phase = "done" /\ ~ret
  /\ start > 0 /\ start <= textLen
  /\ Ends(ast.children[2], start) # {}

(***************************************************************************)
(* C9. What group(k) reports.                                              *)
(***************************************************************************)
Groups == 1..numCaptures_
groupStart(k) == captures_[k * 2 + 1]
groupEnd(k) == captures_[k * 2 + 2]
groupSet(k) == groupStart(k) # npos /\ groupEnd(k) # npos

\* What is to be reported for group k: its span and text, or the empty
\* sentinel when it did not participate or matched the empty string.
groupReport(k) ==
  IF groupSet(k) /\ groupEnd(k) > groupStart(k)
    THEN [start |-> groupStart(k), end |-> groupEnd(k),
          captured |-> bytes(groupStart(k), groupEnd(k))]
    ELSE [start |-> npos, end |-> npos, captured |-> <<>>]

\* The groups whose span is not strictly contained in another group's span.
OutermostGroups ==
  {k \in Groups :
     ~(groupSet(k) /\ \E j \in Groups \ {k} :
          groupSet(j) /\ covers(groupStart(j), groupEnd(j),
                                groupStart(k), groupEnd(k)))}

\* match or search has returned true: result is built from captures_.
Succeeded == phase = "done" /\ ret /\ op \in {"match", "search"}

\* C9 as stated: after a successful match of a pattern with N capturing
\* groups, result.captures has exactly N entries, and group(k),
\* group_start(k), group_end(k) report the k-th group's text and span, or
\* the empty sentinel, for every k in 1..N.
C9_GroupKAtIndexK ==
  Succeeded =>
    /\ Len(result.captures) = numCaptures_
    /\ \A k \in Groups :
         /\ group(result, k) = groupReport(k).captured
         /\ group_start(result, k) = groupReport(k).start
         /\ group_end(result, k) = groupReport(k).end

\* C9 amended: result.captures has one entry for each group whose span is
\* not strictly contained in another group's span, in increasing group
\* order; the entry of such a group k holds its span and text, or the empty
\* sentinel, and sits at index k-1 minus the number of dropped groups below
\* k. So group(k), group_start(k), group_end(k) report group k for every k
\* when no group's span is strictly contained in another's.
C9_OutermostGroupsInOrder ==
  Succeeded =>
    /\ Len(result.captures) = Cardinality(OutermostGroups)
    /\ \A k \in OutermostGroups :
         result.captures[Cardinality({j \in OutermostGroups : j <= k})]
           = groupReport(k)
    /\ OutermostGroups = Groups =>
         \A k \in Groups :
           /\ group(result, k) = groupReport(k).captured
           /\ group_start(result, k) = groupReport(k).start
           /\ group_end(result, k) = groupReport(k).end

\* A group was dropped and a later group, with a real span, is reported
\* one index lower.
C9_Witness ==
  /\ Succeeded
  /\ \E k \in Groups \ OutermostGroups :
       \E j \in OutermostGroups :
         /\ k < j
         /\ groupReport(j).start # npos
         /\ group_start(result, j - 1) = groupStart(j)

(***************************************************************************)
(* C10. Capture containment filter.                                        *)
(***************************************************************************)
\* No entry of r.captures with a real span is strictly contained in the
\* span of another entry.
noEntryContained(r) ==
  \A m, n \in 1..Len(r.captures) :
    (m # n /\ r.captures[m].start # npos /\ r.captures[n].start # npos) =>
      ~covers(r.captures[n].start, r.captures[n].end,
              r.captures[m].start, r.captures[m].end)

\* C10: in every MatchResult produced by a successful match, no entry of
\* captures that carries a real span is strictly contained in the span of
\* another entry of captures.
C10_NoReportedGroupContained ==
  /\ \A i \in 1..Len(attempts) :
       attempts[i].ok => noEntryContained(attempts[i].result)
  /\ \A n \in 1..Len(results) : noEntryContained(results[n])
  /\ Succeeded => noEntryContained(result)

\* A successful match reported a group with a real span after dropping a
\* group whose non-empty span lies inside it.
C10_Witness ==
  /\ Succeeded
  /\ Len(result.captures) < numCaptures_
  /\ \E k \in Groups \ OutermostGroups :
       /\ groupEnd(k) > groupStart(k)
       /\ \E n \in 1..Len(result.captures) :
            /\ result.captures[n].start # npos
            /\ covers(result.captures[n].start, result.captures[n].end,
                      groupStart(k), groupEnd(k))

(***************************************************************************)
(* C11. Capturing groups are numbered by their opening parenthesis.        *)
(***************************************************************************)
\* The groupIndex of the GROUP nodes of a tree in the order of their opening
\* parentheses (a group before the groups inside it, left before right).
RECURSIVE groupIndices(_)
RECURSIVE groupIndicesOf(_, _)
groupIndicesOf(children, i) ==
  IF i > Len(children) THEN <<>>
  ELSE groupIndices(children[i]) \o groupIndicesOf(children, i + 1)
groupIndices(node) ==
  (IF node.type = "GROUP" THEN <<node.groupIndex>> ELSE <<>>)
    \o groupIndicesOf(node.children, 1)

\* The number of instructions of the program equal to inst.
emitted(inst) ==
  Cardinality({i \in 1..Len(instructions_) : instructions_[i] = inst})

\* C11: the parser numbers the capturing groups 1..N in the order of their
\* opening parenthesis, each with an index of its own, nested groups
\* included, and the compiler brackets group k with SAVE 2k and SAVE 2k+1:
\* the program has one SAVE 2k and one SAVE 2k+1 for every k in 1..N.
C11_GroupsNumberedByOpening ==
  /\ groupIndices(ast) = [k \in 1..numCaptures_ |-> k]
  /\ \A k \in 1..numCaptures_ :
       emitted(Save(2 * k)) = 1 /\ emitted(Save(2 * k + 1)) = 1

(***************************************************************************)
(* C15. The position of the RegexError for an unclosed opener.             *)
(***************************************************************************)
Openers == {"(", "[", "{"}
Closers == {")", "]", "}"}

\* The pattern has an opening character and no closing character at all:
\* whatever opens is unclosed.
UnclosedOnly ==
  /\ \E i \in 1..Len(pattern_) : pattern_[i] \in Openers
  /\ \A i \in 1..Len(pattern_) : pattern_[i] \notin Closers

\* C15: the RegexError raised for a pattern with an unclosed '(', '[' or '{'
\* carries the byte offset of an unclosed opening character.
C15_ErrorAtUnclosedOpener ==
  (phase # "new" /\ UnclosedOnly) =>
    /\ ~compiled_
    /\ thrown # npos
    /\ thrown < Len(pattern_)
    /\ pattern_[thrown + 1] \in Openers

(***************************************************************************)
(* C16. Groups with a modifier.                                            *)
(***************************************************************************)
\* The offset of the '(' of a group (?:X), (?=X) or (?!X) that closes at the
\* end of the pattern.
ModifiedAt ==
  {i \in 1..(Len(pattern_) - 3) :
     /\ pattern_[i] = "(" /\ pattern_[i + 1] = "?"
     /\ pattern_[i + 2] \in {":", "=", "!"}
     /\ pattern_[Len(pattern_)] = ")"}

\* The pattern with the parentheses and the modifier removed.
Stripped ==
  LET i == CHOOSE i \in ModifiedAt : TRUE
  IN SubSeq(pattern_, 1, i - 1) \o SubSeq(pattern_, i + 3, Len(pattern_) - 1)

\* C16: a pattern with a non-capturing group (?:X) or a lookaround group
\* (?=X), (?!X) compiles, with the capture count and the program of the
\* pattern without the parentheses and the modifier.
C16_ModifiedGroupsCompile ==
  (phase # "new" /\ ModifiedAt # {}) =>
    /\ compiled_
    /\ numCaptures_ = Regex_compile(Stripped).numCaptures
    /\ instructions_ = Regex_compile(Stripped).instructions

(***************************************************************************)
(* C20. Bounded quantifiers.                                               *)
(***************************************************************************)
\* The pattern is X{n} or X{n,m}, X one character.
BoundedPattern ==
  /\ Len(pattern_) \in {4, 6}
  /\ pattern_[2] = "{"
  /\ pattern_[Len(pattern_)] = "}"
BoundedMin == Ord(pattern_[3]) - 48
BoundedMax == IF Len(pattern_) = 6 THEN Ord(pattern_[5]) - 48 ELSE BoundedMin

\* The fragment of X: the program of the pattern X without its MATCH.
XFragment ==
  LET program == Regex_compile(<<pattern_[1]>>).instructions
  IN SubSeq(program, 1, Len(program) - 1)

RECURSIVE copies(_, _)
copies(frag, n) == IF n = 0 THEN <<>> ELSE frag \o copies(frag, n - 1)

\* X matches the byte at offset p of the text.
XAt(p) == p < textLen /\ (pattern_[1] = "." \/ text[p + 1] = Ord(pattern_[1]))

\* A finished match call succeeded exactly when n repetitions of X stand at
\* start, and then consumed exactly these.
ConsumesExactly(n) ==
  (phase = "done" /\ op = "match") =>
    /\ ret <=> \A i \in 0..(n - 1) : XAt(start + i)
    /\ ret => result.position = start /\ length(result) = n

C17_NeverThrows == compiled_ => phase # "threw"

(***************************************************************************)
(* Regex::replace: what the history of substitutions says.                 *)
(***************************************************************************)
Replacing == caller = "replace"
lastSubstitution == substitutions[Len(substitutions)]

\* The offset just after the replacement inserted last (0 before the first
\* substitution).
insertEnd ==
  IF substitutions = <<>> THEN 0
  ELSE lastSubstitution.position + Len(lastSubstitution.repl)

\* The offsets of the string that lie inside an inserted replacement: a
\* later substitution is made at or after the end of an earlier insert, so
\* an insert stays where it was put.
insertedOffsets ==
  UNION {substitutions[k].position..
           (substitutions[k].position + Len(substitutions[k].repl) - 1) :
         k \in 1..Len(substitutions)}

(***************************************************************************)
(* C12. replace with "$0" is the identity.                                 *)
(***************************************************************************)
\* C12: for every compiled pattern and every text for which replace
\* returns, replace(t, "$0", all = true) returns t: each match is replaced
\* by its own matched text.
C12_ReplaceWholeMatchRoundTrip ==
  (phase = "replaced" /\ all /\ replacement = <<"$", "0">>) => text = original

\* replace(t, "$0", true) returned after two substitutions, one of them of a
\* match that is not empty.
C12_Witness ==
  /\ phase = "replaced" /\ all /\ replacement = <<"$", "0">>
  /\ Len(substitutions) >= 2
  /\ \E k \in 1..Len(substitutions) : substitutions[k].length > 0

noMatchBeginsAt(q) == Ends(ast, q) = {} \/ q \in Ends(ast, q)

C14_ReplaceResumesAfterInsert ==
  (Replacing /\ all /\ substitutions # <<>>
     /\ phase \in {"exec", "returned", "done"}) =>
    /\ text = stringReplace(lastSubstitution.before, lastSubstitution.position,
                            lastSubstitution.length, lastSubstitution.repl)
    /\ start = insertEnd
    /\ \A i \in 1..Len(attempts) : attempts[i].pos >= insertEnd
    /\ phase = "exec" => captures_[1] >= insertEnd /\ textPos >= insertEnd
    /\ (phase = "done" /\ ret) => result.position >= insertEnd

\* A search of replace found a match right after an inserted replacement
\* that is longer than the match it replaced.
C14_Witness ==
  /\ Replacing /\ all /\ phase = "done" /\ ret
  /\ substitutions # <<>>
  /\ Len(lastSubstitution.repl) > lastSubstitution.length
  /\ result.position = insertEnd

(***************************************************************************)
(* C19. Handles after copies and moves.                                    *)
(***************************************************************************)
\* The handle in slot owns a live VM of its own, bound to the program of
\* the handle's pattern.
ownsItsVM(slot) ==
  LET h == handles[slot]
      fresh == Regex_compile(h.pattern_)
  IN /\ h.engine_ # nullptr
     /\ h.engine_ <= Len(vms)
     /\ vms[h.engine_].live
     /\ \A other \in Slots \ {slot} : handles[other].engine_ # h.engine_
     /\ fresh.compiled
     /\ h.instructions_ = fresh.instructions
     /\ h.numCaptures_ = fresh.numCaptures
     /\ vms[h.engine_].instructions_ = fresh.instructions
     /\ vms[h.engine_].captureCount_ = fresh.numCaptures + 1

\* C19: after any sequence of constructions, copies and moves, a handle
\* with isCompiled() owns a VM bound to its own program, that of a handle
\* newly compiled from the same pattern, and its calls run on that program;
\* a handle without isCompiled() never reaches through engine_: its match
\* and search return false, its searchAll returns no result and its replace
\* returns the text, and no call dereferences a null engine_.
C19_HandlesStayConsistent ==
  /\ \A slot \in Slots :
       (handles[slot].live /\ handles[slot].compiled_) => ownsItsVM(slot)
  /\ phase # "null dereference"
  /\ (stage = "call" /\ compiled_) =>
       /\ instructions_ = Regex_compile(pattern_).instructions
       /\ numCaptures_ = Regex_compile(pattern_).numCaptures
  /\ (stage = "call" /\ ~compiled_ /\ op # "none") =>
       /\ phase \in {"done", "replaced"}
       /\ attempts = <<>>
       /\ op \in {"match", "search"} => ~ret
       /\ op = "searchAll" => results = <<>>
       /\ Replacing => text = original /\ phase = "replaced"

\* A call of search on a moved-from handle has returned, the handle it was
\* moved to being compiled, and a third handle being a compiled copy.
C19_Witness ==
  /\ stage = "call" /\ ~compiled_ /\ op = "search" /\ phase = "done"
  /\ text # <<>>
  /\ \E moved \in Slots, copy \in Slots :
       /\ moved # copy
       /\ handles[moved].compiled_ /\ handles[copy].compiled_
       /\ handles[moved].engine_ < handles[copy].engine_

(***************************************************************************)
(* C18. Two threads, an original and its copy.                             *)
(***************************************************************************)
\* The locals of thread t.
localsOf(t) == IF t = thread THEN currentLocals ELSE parked[t]

\* C18: the copy has a VM of its own, and under every interleaving of the
\* steps of the two threads' calls each call ends as it ended alone, with
\* the same returned value and the same MatchResult.
C18_CopyRunsIndependently ==
  /\ stage \in {"solo", "concurrent"} =>
       handles[1].engine_ # handles[2].engine_
  /\ stage = "concurrent" =>
       \A t \in Threads :
         localsOf(t).phase \in {"done", "threw"} =>
           /\ localsOf(t).phase = solo[t].phase
           /\ localsOf(t).ret = solo[t].ret
           /\ localsOf(t).result = solo[t].result

\* A thread's call has returned a match with a capture while the other
\* thread's call is under way, with backtrack points on its VM's stack.
C18_Witness ==
  /\ stage = "concurrent"
  /\ phase = "done" /\ ret
  /\ result.captures # <<>>
  /\ parked[3 - thread].phase = "exec"
  /\ parked[3 - thread].pc > 0
  /\ vms[handles[using[3 - thread]].engine_].backtrackStack_ # <<>>

(***************************************************************************)
(* C21. Blanks in the pattern are skipped.                                 *)
(***************************************************************************)
\* The pattern without its unescaped spaces and tabs, from character i on.
RECURSIVE unblankedFrom(_, _)
unblankedFrom(pattern, i) ==
  IF i > Len(pattern) THEN <<>>
  ELSE IF pattern[i] = "\\" /\ i < Len(pattern)
    THEN <<pattern[i], pattern[i + 1]>> \o unblankedFrom(pattern, i + 2)
  ELSE IF pattern[i] \in {" ", "\t"} THEN unblankedFrom(pattern, i + 1)
  ELSE <<pattern[i]>> \o unblankedFrom(pattern, i + 1)

Unblanked == unblankedFrom(pattern_, 1)

\* C21: unescaped spaces and tabs are skipped wherever they stand in the
\* pattern: the constructor compiles the pattern exactly when it compiles the
\* pattern without them, and to the same program.
C21_BlanksSkipped ==
  phase # "new" =>
    /\ compiled_ = Regex_compile(Unblanked).compiled
    /\ compiled_ => instructions_ = Regex_compile(Unblanked).instructions

(***************************************************************************)
(* C22. Back-references.                                                   *)
(***************************************************************************)
\* The digits k written \k in the pattern: the characters after a backslash
\* that is not itself escaped.
RECURSIVE escapedDigitsFrom(_, _)
escapedDigitsFrom(pattern, i) ==
  IF i >= Len(pattern) THEN {}
  ELSE IF pattern[i] = "\\"
    THEN (IF isDigitChar(pattern[i + 1]) THEN {Ord(pattern[i + 1]) - 48} ELSE {})
           \cup escapedDigitsFrom(pattern, i + 2)
  ELSE escapedDigitsFrom(pattern, i + 1)

BackrefDigits == escapedDigitsFrom(pattern_, 1)

\* C22: a back-reference \k of a pattern that compiles is compiled to a
\* BACKREF k instruction, and an attempt that reaches it fails there: no
\* attempt of a pattern whose every path goes through a back-reference, as
\* (a)\1, reaches MATCH.
C22_BackrefCompiledAndFails ==
  /\ compiled_ =>
       \A k \in BackrefDigits :
         \E i \in 1..Len(instructions_) : instructions_[i] = Backref(k)
  /\ pattern_ = <<"(", "a", ")", "\\", "1">> => ~matched

(***************************************************************************)
(* C23. The text position stays within the text.                           *)
(***************************************************************************)
\* C23: during an attempt begun at an offset s <= len(text) (captures_[0]
\* holds s), s <= textPos <= len(text): no consuming instruction advances
\* textPos at the end of the text.
C23_TextPosWithinText ==
  phase = "exec" /\ captures_[1] <= textLen =>
    captures_[1] <= textPos /\ textPos <= textLen

(***************************************************************************)
(* C24. Compiled programs are well formed.                                 *)
(***************************************************************************)
\* Every JUMP operand and both SPLIT targets are addresses of the program,
\* MATCH is its last instruction and occurs nowhere else, and every SAVE
\* slot is one of the 2*(N+1) slots of the capture vector.
WellFormed(program, N) ==
  /\ Len(program) > 0
  /\ program[Len(program)] = Match
  /\ \A i \in 1..Len(program) :
       /\ program[i].opcode = "MATCH" => i = Len(program)
       /\ program[i].opcode = "JUMP" =>
            program[i].operand >= 0 /\ program[i].operand < Len(program)
       /\ program[i].opcode = "SPLIT" =>
            /\ program[i].operand >= 0 /\ program[i].operand < Len(program)
            /\ program[i].charset >= 0 /\ program[i].charset < Len(program)
       /\ program[i].opcode = "SAVE" =>
            program[i].operand >= 0 /\ program[i].operand < 2 * (N + 1)

\* C24: the program of every handle that compiled is well formed.
C24_ProgramsWellFormed ==
  compiled_ => WellFormed(instructions_, numCaptures_)

Opcodes(program) == {program[i].opcode : i \in 1..Len(program)}

\* A compiled program with a patched JUMP, a SPLIT and the SAVEs of a group,
\* at the end of a call that ran it.
C24_Witness ==
  /\ compiled_
  /\ {"JUMP", "SPLIT", "SAVE", "MATCH"} \subseteq Opcodes(instructions_)
  /\ \E i \in 1..Len(instructions_) :
       instructions_[i].opcode = "JUMP"
         /\ instructions_[i].operand = Len(instructions_) - 1
  /\ phase = "done"

(***************************************************************************)
(* C25. Backtracking is LIFO and restores a full snapshot.                 *)
(***************************************************************************)
\* The instruction at pc fails: the loop is left without MATCH.
Fails ==
  /\ phase = "exec"
  /\ ~matched
  /\ \/ pc >= Len(instructions_)
     \/ /\ pc < Len(instructions_)
        /\ LET inst == instructions_[pc + 1]
           IN \/ inst.opcode \in ConsumingOpcodes /\ ~consumes(inst, textPos)
              \/ inst.opcode = "ANCHOR_START" /\ textPos # 0
              \/ inst.opcode = "ANCHOR_END" /\ textPos # textLen
              \/ inst.opcode = "BACKREF"

\* A SPLIT executes: the frame pushed holds the SPLIT's second target and
\* textPos and the whole capture vector as they are, and the frames below
\* are left alone.
SplitPushesSnapshot ==
  (phase = "exec" /\ ~matched /\ pc < Len(instructions_)
     /\ instructions_[pc + 1].opcode = "SPLIT")
    => backtrackStack_' =
         Append(backtrackStack_,
                [pc |-> instructions_[pc + 1].charset, textPos |-> textPos,
                 savedCaptures |-> captures_])

\* A failure on a non-empty stack pops the most recent frame and resumes
\* from it.
FailRestoresTop ==
  (Fails /\ backtrackStack_ # <<>>)
    => LET top == backtrackStack_[Len(backtrackStack_)]
       IN /\ pc' = top.pc
          /\ textPos' = top.textPos
          /\ captures_' = top.savedCaptures
          /\ backtrackStack_' = SubSeq(backtrackStack_, 1, Len(backtrackStack_) - 1)
          /\ phase' = "exec"

\* No other instruction touches the stack.
StackOnlyPushedAndPopped ==
  (phase = "exec" /\ phase' = "exec")
    => \/ backtrackStack_' = backtrackStack_
       \/ SubSeq(backtrackStack_', 1, Len(backtrackStack_') - 1) = backtrackStack_
       \/ backtrackStack_' = SubSeq(backtrackStack_, 1, Len(backtrackStack_) - 1)

\* The slots of group k are both set or both unset.
slotsPaired(k) == (captures_[2 * k + 1] = npos) <=> (captures_[2 * k + 2] = npos)

\* C25: a SPLIT pushes a frame with its second target, textPos and the whole
\* capture vector; a failure on a non-empty stack resumes from the most
\* recent frame not yet popped, with pc, textPos and the captures of that
\* frame; so when MATCH is reached the captures are those of the path that
\* reached it: a group whose opening SAVE ran on a path that failed before
\* its closing SAVE has neither slot set.
C25_BacktrackRestoresSnapshot ==
  /\ [][SplitPushesSnapshot /\ FailRestoresTop /\ StackOnlyPushedAndPopped]_vars
  /\ [](AtMatch => \A k \in 1..numCaptures_ : slotsPaired(k))

\* (a)|(1) on "1" has reached MATCH: SAVE 2 ran before CHAR 'a' failed, and
\* the captures restored from the frame of the SPLIT hold no trace of it.
C25_Witness ==
  /\ pattern_ = <<"(", "a", ")", "|", "(", "1", ")">>
  /\ text = <<Ord("1")>>
  /\ AtMatch
  /\ captures_ = <<0, 1, npos, npos, 0, 1>>
  /\ backtrackStack_ = <<>>

(***************************************************************************)
(* C26. A call does not depend on the calls made before it.                *)
(***************************************************************************)
\* C26: a call made on a handle after earlier calls (match, search,
\* searchAll or replace, successful, failed or ended by an exception, on any
\* texts) ends as the same call does on a handle just constructed from the
\* pattern: it returns or throws alike, with the same boolean, the same
\* MatchResult, the same results (searchAll), the same string (replace) and
\* the same attempts.
C26_LaterCallAsOnNewHandle ==
  (stage = "fresh" /\ callEnded) =>
    /\ phase = recorded.locals.phase
    /\ ret = recorded.locals.ret
    /\ result = recorded.locals.result
    /\ results = recorded.locals.results
    /\ text = recorded.locals.text
    /\ attempts = recorded.locals.attempts

\* A successful match with captures has ended on the new handle; the
\* recorded call began on a VM whose captures_ held the spans an earlier
\* call had left.
C26_Witness ==
  /\ stage = "fresh"
  /\ phase = "done"
  /\ op = "match"
  /\ ret
  /\ result.captures # <<>>
  /\ \E i \in 3..Len(recorded.began.captures_) :
       recorded.began.captures_[i] # npos
  /\ \A i \in 1..Len(began.captures_) : began.captures_[i] = npos

(***************************************************************************)
(* C29. A call that returns false leaves the caller's MatchResult alone.   *)
(***************************************************************************)
\* C29: when match or search returns false, the caller's MatchResult is as
\* it was when the call began: a MatchResult handed to the call after an
\* earlier success still reports that earlier match.
C29_FailedCallLeavesResult ==
  (phase = "done" /\ caller = "none" /\ op \in {"match", "search"} /\ ~ret) =>
    result = began.result

\* A search that made attempts has returned false; the caller had handed
\* it the MatchResult of an earlier successful call.
C29_Witness ==
  /\ phase = "done"
  /\ caller = "none"
  /\ op = "search"
  /\ ~ret
  /\ attempts # <<>>
  /\ began.result.written
  /\ began.result.matched
  /\ began.result.matched_text # <<>>
  /\ result = began.result

(***************************************************************************)
(* C27. Two calls on one handle share the VM.                              *)
(***************************************************************************)
\* C27: two match calls running at once on the same handle run on one VM
\* object: the capture vector and the backtrack stack a thread finds when it
\* is scheduled are those the other thread left. (That some interleaving
\* makes a call end otherwise than it does alone is C27_Witness.)
C27_CallsShareTheVM ==
  /\ [](stage \in {"solo", "concurrent"} =>
          handles[using[1]].engine_ = handles[using[2]].engine_)
  /\ [][(stage = "concurrent" /\ thread' # thread) =>
          /\ captures_' = captures_
          /\ backtrackStack_' = backtrackStack_]_vars

\* The running thread's call has ended, in an interleaving with the other
\* thread's, with a boolean or a MatchResult other than the one the same
\* call returned when it ran alone.
C27_Witness ==
  /\ stage = "concurrent"
  /\ phase = "done"
  /\ solo[thread].phase = "done"
  /\ text = solo[thread].text
  /\ ret # solo[thread].ret \/ result # solo[thread].result

(***************************************************************************)
(* C28. replace terminates.                                                *)
(***************************************************************************)
\* An iteration of the all = true loop that goes on to another search: the
\* scan offset (the start handed to search) has strictly increased or the
\* string has strictly shrunk, and the part of the string still to be
\* scanned is strictly shorter: the loop, which goes on only while the
\* offset is less than the length, ends.
IterationAdvances ==
  (caller = "replace" /\ phase = "done" /\ ret /\ all /\ phase' # "replaced")
    => /\ start' > start \/ Len(text') < Len(text)
       /\ Len(text') - start' < Len(text) - start
       /\ start' < Len(text')

\* A search of replace that never returns: the attempt is in a loop.
SearchNeverReturns == phase = "exec" /\ ~matched /\ Looping

\* C28: unless a search call never returns, replace ends (it returns its
\* string, or an exception of buildResult leaves it), for every pattern,
\* text and replacement, with all = true and all = false; each iteration of
\* the all = true loop strictly increases the scan offset or strictly
\* shrinks the string.
C28_ReplaceTerminates ==
  /\ [][IterationAdvances]_vars
  /\ <>(phase \in {"replaced", "threw"} \/ SearchNeverReturns)

\* replace(all = true) has returned after an iteration that inserted an
\* empty replacement for a non-empty match and went on: the offset stayed
\* and the string shrank.
C28_Witness ==
  /\ phase = "replaced"
  /\ all
  /\ \E i \in 1..Len(substitutions) :
       /\ substitutions[i].repl = <<>>
       /\ substitutions[i].length > 0
       /\ i < Len(substitutions)
       /\ substitutions[i + 1].position = substitutions[i].position

(***************************************************************************)
(* C30. ',' and '-' outside braces and brackets are literals.              *)
(***************************************************************************)
\* The program of a pattern whose characters are all literal bytes.
literalProgram(pattern) ==
  [i \in 1..(Len(pattern) + 1) |->
     IF i <= Len(pattern) THEN Char(Ord(pattern[i])) ELSE Match]

\* C30: a ',' that belongs to no brace quantifier and a '-' outside a
\* character class are the literal bytes ',' and '-' at every position of a
\* concatenation: a pattern made of them and of other literals compiles to
\* one CHAR for each of its characters.
C30_CommaAndDashAreLiterals ==
  (phase # "new" /\ pattern_ \in PunctuationSources) =>
    compiled_ /\ instructions_ = literalProgram(pattern_)

====
